---------------------------- MODULE Spec2Model ----------------------------
(***************************************************************************)
(* Model of the knightshade e-mail service: its HTTP handlers and its      *)
(* visual e-mail builder.                                                  *)
(*                                                                         *)
(*  Spec     the send path: POST /api/send, POST /api/send-custom and      *)
(*           POST /api/preview, run by concurrent requests against the     *)
(*           "emails" log collection and the mail-delivery provider.       *)
(*  SpecCrud   create, update and delete requests against the              *)
(*             "custom_templates" collection.                              *)
(*  SpecImport an import request with any body, item by item.              *)
(*  SpecRace   two import requests with the same body, and create and      *)
(*             delete requests, running at the same time.                  *)
(*  SpecMongo  callers of lib/mongodb's getMongoClient, getDb and          *)
(*             getCollection, running at the same time.                    *)
(*  SpecSanitize  sanitizeHtmlContent of the send-custom route, applied to *)
(*             texts made of a few pieces.                                 *)
(*  SpecIdem   a client that exports a store and imports the exported      *)
(*             bundle into a store twice in sequence.                      *)
(*  SpecInline  the inline Markdown conversion toInline of the demo page,  *)
(*              applied to bounded texts.                                  *)
(*  SpecText    mdInlineToHtml of the canvas and of the export, applied    *)
(*              to bounded texts of several lines.                         *)
(*  SpecBuilder the visual builder: drops on the canvas, edits in the      *)
(*              property editor, deletions, and the HTML generated for     *)
(*              the placed elements.                                       *)
(*                                                                         *)
(* Every `await` of a handler that touches the store or the provider is    *)
(* one action, so requests interleave exactly where the code yields.       *)
(* A store call either completes or throws; a call that throws has not     *)
(* written.                                                                *)
(***************************************************************************)
EXTENDS Integers, Sequences, FiniteSets, TLC

\* Number of send/preview requests in flight in one behaviour.
MaxReq == 2

\* JavaScript's `undefined`: an absent body field, an unset local.
NoVal == "undefined"

Reqs == 1..MaxReq

\* Number of create/update/delete requests in one behaviour.
MaxOps == 3

\* Number of items in an import body.
MaxBatch == 2

\* Number of documents in the store at the start of a behaviour.
MaxStored == 2

VARIABLES
  env,               \* the server environment read by getServerEnv()
  emails,            \* the "emails" collection: a sequence of EmailLog, _id = index
  req,               \* per request: position in the handler and its locals
  mongo,             \* lib/mongodb: the module's cache and the calls under way
  custom_templates,  \* the "custom_templates" collection, in insertion order
  nextGen,           \* how many ids `custom_${Date.now()}_${random}` were made
  last,              \* the latest create/update/delete request and its answer
  imp,               \* the import request: position in its loop and its locals
  rival,             \* a second import request, running at the same time
  exported,          \* the templates array of the latest export
  phase,             \* where the exporting and re-importing client stands
  raw,               \* the text handed to mdInlineToHtml
  converted,         \* what mdInlineToHtml returned for it
  context,           \* which conversion ran: canvas, export or sanitize
  elements,          \* the builder's placed elements, in canvas order
  html,              \* the document of the latest generateEmailHTML
  canvas,            \* what renderElement shows for each placed element
  steps              \* the drops, edits and deletions the builder saw, in order

sendVars == <<env, emails, req, mongo>>

tplVars == <<custom_templates, nextGen, last, imp, rival, exported, phase>>

uiVars == <<raw, converted, context, elements, html, canvas, steps>>

vars == <<env, emails, req, mongo, custom_templates, nextGen, last, imp,
          rival, exported, phase, raw, converted, context, elements, html,
          canvas, steps>>

-----------------------------------------------------------------------------
(* Built-in template registry *)

templates == <<[id |-> "welcome"], [id |-> "reset-password"]>>

\* Mutant: an unknown id falls back to the first registered template.
getTemplateByIdOrFirst(id) ==
  LET found == SelectSeq(templates, LAMBDA t : t.id = id)
  IN  IF found = <<>> THEN <<Head(templates)>> ELSE <<Head(found)>>

\* templates.find(t => t.id === id): the first match, or nothing.  The result
\* is a sequence of at most one descriptor; <<>> stands for `undefined`.
getTemplateById(id) ==
  LET found == SelectSeq(templates, LAMBDA t : t.id = id)
  IN  IF found = <<>> THEN <<>> ELSE <<Head(found)>>

-----------------------------------------------------------------------------
(* Request bodies *)

Modes == {"html", "react", "css", "javascript", "plaintext"}

Body(kind, to, subject, templateId, content, mode) ==
  [kind |-> kind, to |-> to, subject |-> subject, templateId |-> templateId,
   content |-> content, mode |-> mode]

\* POST /api/send: a complete body, an unknown and an absent templateId, and
\* bodies lacking `to` or `subject`.
SendBodies ==
  { Body("send", "a@x.io", "Hi", t, NoVal, NoVal) :
      t \in {"welcome", "nope", NoVal} }
  \cup { Body("send", NoVal, "Hi", "welcome", NoVal, NoVal),
         Body("send", "a@x.io", NoVal, "reset-password", NoVal, NoVal) }

\* POST /api/send-custom: complete bodies, and bodies lacking `content`,
\* `to` or `subject`, over the five modes.
CustomBodies ==
  { Body("custom", "a@x.io", "Hi", NoVal, "<p>x</p>", m) :
      m \in {"html", "react", "plaintext"} }
  \cup { Body("custom", "a@x.io", "Hi", NoVal, NoVal, m) :
           m \in {"html", "css", "plaintext"} }
  \cup { Body("custom", NoVal, "Hi", NoVal, "<p>x</p>", "html"),
         Body("custom", "a@x.io", NoVal, NoVal, "<p>x</p>", "javascript") }

\* POST /api/preview
PreviewBodies ==
  { Body("preview", NoVal, NoVal, t, NoVal, NoVal) :
      t \in {"welcome", "nope", NoVal} }

Bodies == SendBodies \cup CustomBodies \cup PreviewBodies

-----------------------------------------------------------------------------
(* Responses *)

Json(status, error, id) == [status |-> status, error |-> error, id |-> id]

\* An exception that leaves the handler: the framework answers 500 itself.
Unhandled == Json(500, NoVal, NoVal)

NoResp == Json(0, NoVal, NoVal)

ProviderErrors == {"validation_error"}

StoreError == "store unavailable"

MsgIdOf(r) == "msg-" \o ToString(r)

-----------------------------------------------------------------------------
(* The store's collection operations *)

\* insertOne: appends the document; the store assigns the next _id.
InsertOne(coll, doc) == Append(coll, doc)

InsertedId(coll) == Len(coll) + 1

\* updateOne({_id: id}, {$set: set}): sets the given fields of that document.
UpdateById(coll, id, set) ==
  [i \in 1..Len(coll) |->
     IF i = id
     THEN [f \in DOMAIN coll[i] |->
             IF f \in DOMAIN set THEN set[f] ELSE coll[i][f]]
     ELSE coll[i]]

-----------------------------------------------------------------------------
(* Per-request state *)

IdleReq ==
  [pc |-> "idle",
   body |-> Body(NoVal, NoVal, NoVal, NoVal, NoVal, NoVal),
   insertedId |-> 0,     \* insertResult.insertedId; 0: no insert yet
   data |-> NoVal,       \* data?.id of the provider's answer
   err |-> NoVal,        \* (err as Error).message in the catch
   finalHtml |-> NoVal,  \* send-custom: what finalHtml holds
   source |-> NoVal,     \* history: whether a react source compiles
   resp |-> NoResp,      \* the HTTP response
   calls |-> 0]          \* history: calls of resend.emails.send

Respond(r, b, response) ==
  req' = [req EXCEPT ![r].pc = "done", ![r].body = b, ![r].resp = response]

Crash(r) ==
  req' = [req EXCEPT ![r].pc = "crashed", ![r].resp = Unhandled]

-----------------------------------------------------------------------------
(* Custom templates: documents, request bodies, collection operations *)

\* JavaScript's `!v` for the values a body field takes here.
Falsy(v) == v \in {NoVal, ""}

Template(id, name, type, content) ==
  [id |-> id, name |-> name, type |-> type, content |-> content]

\* `custom_${Date.now()}_${Math.random()...}`: the n-th generated id.
GenId(n) == "custom_" \o ToString(n)

TemplateIds == {"a", "b"}

\* One element of an import body's templates array: JSON null or an object.
Item(kind, id, name, type, content) ==
  [kind |-> kind, id |-> id, name |-> name, type |-> type,
   content |-> content]

Null == Item("null", NoVal, NoVal, NoVal, NoVal)

ImportItems ==
  { Null,
    Item("object", "a", "n1", "html", "c1"),
    Item("object", "b", "n2", "react", "c1"),
    Item("object", NoVal, "n1", "html", "c1"),
    Item("object", "a", NoVal, "html", "c1"),
    Item("object", "b", "n1", "video", "") }

Bundles == UNION { [1..n -> ImportItems] : n \in 1..MaxBatch }

ImportOptions == [overwrite : BOOLEAN, generateNewIds : BOOLEAN]

CreateBodies ==
  { Template(NoVal, "n1", "html", "c1"),
    Template(NoVal, "n1", "video", "c1"),
    Template(NoVal, NoVal, "html", "c1"),
    Template(NoVal, "n1", NoVal, "c1"),
    Template(NoVal, "n1", "html", "") }

PutBodies ==
  { Template(i, "n3", "css", "c2") : i \in TemplateIds \cup {GenId(1), NoVal} }
  \cup { Template("a", NoVal, "css", "c2") }

DeleteIds == TemplateIds \cup {GenId(1), NoVal}

\* Documents of the store at the start of a behaviour.
StoredTemplates ==
  { Template("a", "n1", "html", "c1"), Template("b", "n2", "react", "c1") }

Stores == UNION { [1..n -> StoredTemplates] : n \in 0..MaxStored }

HasId(coll, id) == \E i \in 1..Len(coll) : coll[i].id = id

\* The document a filter { id } addresses: the first match, 0 for none.
FirstIndex(coll, id) ==
  IF HasId(coll, id)
  THEN CHOOSE i \in 1..Len(coll) :
         /\ coll[i].id = id
         /\ \A j \in 1..(i - 1) : coll[j].id # id
  ELSE 0

Merge(doc, set) ==
  [f \in DOMAIN doc |-> IF f \in DOMAIN set THEN set[f] ELSE doc[f]]

\* Mutant: the update is issued with { upsert: true }.
UpdateOneByKeyUpsert(coll, id, set) ==
  IF HasId(coll, id)
  THEN [i \in 1..Len(coll) |->
          IF i = FirstIndex(coll, id) THEN Merge(coll[i], set) ELSE coll[i]]
  ELSE Append(coll, Merge(Template(id, NoVal, NoVal, NoVal), set))

\* updateOne({ id }, { $set: set })
UpdateOneByKey(coll, id, set) ==
  [i \in 1..Len(coll) |->
     IF i = FirstIndex(coll, id) THEN Merge(coll[i], set) ELSE coll[i]]

\* deleteOne({ id })
DeleteOneByKey(coll, id) ==
  LET i == FirstIndex(coll, id)
  IN  IF i = 0 THEN coll
      ELSE SubSeq(coll, 1, i - 1) \o SubSeq(coll, i + 1, Len(coll))

\* result.matchedCount / result.deletedCount
MatchedCount(coll, id) == IF HasId(coll, id) THEN 1 ELSE 0

NoRequest ==
  [op |-> "none", body |-> Template(NoVal, NoVal, NoVal, NoVal),
   storeOk |-> TRUE, status |-> 0, n |-> 0]

ZeroResults == [imported |-> 0, updated |-> 0, skipped |-> 0, errors |-> <<>>]

NoPrev ==
  [run |-> 0, options |-> [overwrite |-> FALSE, generateNewIds |-> FALSE],
   results |-> ZeroResults, status |-> 0]

IdleImport ==
  [pc |-> "idle",
   run |-> 0,               \* history: import requests started so far
   templates |-> <<>>,      \* body.templates
   options |-> [overwrite |-> FALSE, generateNewIds |-> FALSE],
   k |-> 0,                 \* index of the item the loop is at
   templateId |-> NoVal,    \* the loop's templateId
   existing |-> FALSE,      \* whether findOne returned a document
   results |-> ZeroResults,
   status |-> 0,            \* the HTTP status of the response
   inserted |-> 0,          \* history: documents its insertOne calls added
   overwritten |-> 0,       \* history: documents its updateOne calls matched
   collOk |-> TRUE,         \* history: getCollection returned
   prev |-> NoPrev]         \* history: the previous import request

-----------------------------------------------------------------------------
(* lib/mongodb: getMongoClient, getDb, getCollection *)

\* Callers of the module that may run at the same time.
MaxCallers == 2

\* Calls one caller makes, one after the other.
MaxCalls == 2

Callers == 1..MaxCallers

Entries == {"getMongoClient", "getDb", "getCollection"}

\* A caller that has not called yet.  Clients are numbered in the order
\* `new MongoClient` made them, 0 is null; a Db is named by its client.
NoCall ==
  [pc |-> "idle",
   entry |-> NoVal,   \* the function the caller called
   client |-> 0,      \* getMongoClient's `client`
   result |-> 0,      \* what the call resolved with
   n |-> 0]           \* history: calls made

\* The module after it was loaded: `let cachedClient = null`, `let cachedDb
\* = null`, and `uri` as the environment has it.
Loaded(uri) ==
  [uri |-> uri,
   cachedClient |-> 0,
   cachedDb |-> 0,
   constructed |-> 0,  \* history: MongoClient objects made
   connected |-> {},   \* history: the clients whose connect() resolved
   handed |-> {},      \* history: the clients calls resolved with
   call |-> [c \in Callers |-> NoCall]]

\* The synchronous start of a call, up to its first await that waits: getDb
\* and getCollection return cachedDb when it is set; otherwise
\* getMongoClient returns cachedClient when it is set, throws when uri is
\* empty, and else makes a client and starts connect().
CallModule(c, entry) ==
  /\ mongo.call[c].pc \in {"idle", "done", "failed"}
  /\ mongo.call[c].n < MaxCalls
  /\ LET me == [NoCall EXCEPT !.entry = entry, !.n = mongo.call[c].n + 1]
     IN  IF entry # "getMongoClient" /\ mongo.cachedDb # 0
         THEN mongo' = [mongo EXCEPT
                          !.call[c] = [me EXCEPT !.pc = "done",
                                                 !.result = mongo.cachedDb],
                          !.handed = @ \cup {mongo.cachedDb}]
         ELSE IF mongo.cachedClient # 0
         THEN IF entry = "getMongoClient"
              THEN mongo' = [mongo EXCEPT
                               !.call[c] =
                                 [me EXCEPT !.pc = "done",
                                            !.client = mongo.cachedClient,
                                            !.result = mongo.cachedClient],
                               !.handed = @ \cup {mongo.cachedClient}]
              ELSE mongo' = [mongo EXCEPT
                               !.call[c] =
                                 [me EXCEPT !.pc = "haveClient",
                                            !.client = mongo.cachedClient]]
         ELSE IF mongo.uri = ""
         THEN mongo' = [mongo EXCEPT !.call[c] = [me EXCEPT !.pc = "failed"]]
         ELSE mongo' = [mongo EXCEPT
                          !.constructed = @ + 1,
                          !.call[c] =
                            [me EXCEPT !.pc = "connecting",
                                       !.client = mongo.constructed + 1]]
  /\ UNCHANGED <<env, emails, req>>
  /\ UNCHANGED tplVars
  /\ UNCHANGED uiVars

\* `await client.connect()` settles: resolved, the client is cached and
\* returned; rejected, the call fails and the cache is not written.
Connect(c) ==
  /\ mongo.call[c].pc = "connecting"
  /\ LET client == mongo.call[c].client
     IN  \/ mongo' =
              [mongo EXCEPT
                 !.cachedClient = client,
                 !.connected = @ \cup {client},
                 !.handed = IF mongo.call[c].entry = "getMongoClient"
                            THEN @ \cup {client} ELSE @,
                 !.call[c] =
                   IF mongo.call[c].entry = "getMongoClient"
                   THEN [@ EXCEPT !.pc = "done", !.result = client]
                   ELSE [@ EXCEPT !.pc = "haveClient"]]
         \/ mongo' = [mongo EXCEPT !.call[c].pc = "failed"]
  /\ UNCHANGED <<env, emails, req>>
  /\ UNCHANGED tplVars
  /\ UNCHANGED uiVars

\* getDb after `await getMongoClient()`: client.db(dbName) is cached and
\* returned.
SetDb(c) ==
  /\ mongo.call[c].pc = "haveClient"
  /\ mongo' = [mongo EXCEPT
                 !.cachedDb = mongo.call[c].client,
                 !.handed = @ \cup {mongo.call[c].client},
                 !.call[c] = [@ EXCEPT !.pc = "done",
                                       !.result = mongo.call[c].client]]
  /\ UNCHANGED <<env, emails, req>>
  /\ UNCHANGED tplVars
  /\ UNCHANGED uiVars

SendInit ==
  /\ env \in [RESEND_API_KEY : {"re_key", ""}]
  /\ emails = <<>>
  /\ req = [r \in Reqs |-> IdleReq]
  /\ mongo = Loaded("mongodb://db")

TplIdle ==
  /\ nextGen = 0
  /\ last = NoRequest
  /\ imp = IdleImport
  /\ rival = IdleImport
  /\ exported = <<>>

\* The builder page before anything is dropped or typed.
UiIdle ==
  /\ raw = <<>>
  /\ converted = <<>>
  /\ context = "none"
  /\ elements = <<>>
  /\ html = <<>>
  /\ canvas = <<>>
  /\ steps = <<>>

Init ==
  /\ SendInit
  /\ TplIdle
  /\ UiIdle
  /\ custom_templates = <<>>
  /\ phase = "none"

-----------------------------------------------------------------------------
(* POST /api/send, POST /api/send-custom, POST /api/preview *)

\* Requests are numbered in order of arrival.
Arrives(r) ==
  /\ req[r].pc = "idle"
  /\ \A q \in Reqs : q < r => req[q].pc # "idle"

\* Mutant: the status update is given an empty filter and so addresses the
\* first document of the collection.
StatusFilterFirst(r) == 1

\* Mutant: the insert result is kept in a variable shared by all requests, so
\* the update addresses the document inserted last by anyone.
StatusFilterLatest(r) == Len(emails)

\* The filter of both status updates: { _id: insertResult.insertedId }.
StatusFilter(r) == req[r].insertedId

\* The document the handler inserts before the delivery call.
QueuedLog(r) ==
  [to |-> req[r].body.to,
   subject |-> req[r].body.subject,
   template |-> IF req[r].body.kind = "custom"
                THEN "custom-" \o req[r].body.mode
                ELSE req[r].body.templateId,
   status |-> "queued", error |-> NoVal, messageId |-> NoVal,
   owner |-> r]   \* history field: the request that inserted the document

\* send-custom's content processing throws: `compiled` is whether the fetch
\* of /api/compile answered ok; sanitizeHtmlContent(undefined) and
\* undefined.replace throw a TypeError.
ProcessingFails(b, compiled) ==
  CASE b.mode = "react" -> ~compiled
    [] b.mode \in {"css", "javascript"} -> FALSE
    [] OTHER -> b.content = NoVal

ReceiveSend(r) ==
  /\ Arrives(r)
  /\ \E b \in SendBodies, rendered \in BOOLEAN :
       IF env.RESEND_API_KEY = ""
       THEN Respond(r, b, Json(500, "Missing RESEND_API_KEY", NoVal))
       ELSE IF getTemplateById(b.templateId) = <<>>
       THEN Respond(r, b, Json(404, "Template not found", NoVal))
       ELSE IF ~rendered
       THEN req' = [req EXCEPT ![r].pc = "crashed", ![r].body = b,
                               ![r].resp = Unhandled]
       ELSE req' = [req EXCEPT ![r].pc = "insert", ![r].body = b]
  /\ UNCHANGED <<env, emails, mongo>>
  /\ UNCHANGED tplVars
  /\ UNCHANGED uiVars

\* POST /api/compile with type "react": when Babel.transform, the execution
\* of the compiled module or render throws, the catch answers with an
\* error page and status 200.
CompileReact(compiles) ==
  IF compiles THEN [ok |-> TRUE, text |-> "rendered"]
  ELSE [ok |-> TRUE, text |-> "compilation error page"]

\* fetch(/api/compile) when the endpoint does not answer with an ok status.
NotOk == [ok |-> FALSE, text |-> NoVal]

\* finalHtml before sanitizeHtmlContent.
FinalHtml(b, compileResponse) ==
  CASE b.mode = "react" -> compileResponse.text
    [] b.mode \in {"css", "javascript", "plaintext"} -> "wrapped content"
    [] OTHER -> "content"

\* Whether the source of a react body compiles and renders.
SourceOf(b, compiles) ==
  IF b.mode # "react" THEN NoVal
  ELSE IF compiles THEN "compiles" ELSE "fails"

ReceiveCustom(r) ==
  /\ Arrives(r)
  /\ \E b \in CustomBodies, compiles \in BOOLEAN, answered \in BOOLEAN :
       LET compileResponse ==
             IF answered THEN CompileReact(compiles) ELSE NotOk
       IN  IF env.RESEND_API_KEY = ""
           THEN Respond(r, b, Json(500, "Missing RESEND_API_KEY", NoVal))
           ELSE IF ProcessingFails(b, compileResponse.ok)
           THEN req' = [req EXCEPT
                          ![r].pc = "done", ![r].body = b,
                          ![r].source = SourceOf(b, compiles),
                          ![r].resp =
                            Json(400, "Failed to process content", NoVal)]
           ELSE req' = [req EXCEPT
                          ![r].pc = "insert", ![r].body = b,
                          ![r].source = SourceOf(b, compiles),
                          ![r].finalHtml = FinalHtml(b, compileResponse)]
  /\ UNCHANGED <<env, emails, mongo>>
  /\ UNCHANGED tplVars
  /\ UNCHANGED uiVars

Preview(r) ==
  /\ Arrives(r)
  /\ \E b \in PreviewBodies, rendered \in BOOLEAN :
       IF getTemplateById(b.templateId) = <<>>
       THEN Respond(r, b, Json(404, "Template not found", NoVal))
       ELSE IF rendered
       THEN Respond(r, b, Json(200, NoVal, NoVal))
       ELSE Respond(r, b, Json(400, "render failed", NoVal))
  /\ UNCHANGED <<env, emails, mongo>>
  /\ UNCHANGED tplVars
  /\ UNCHANGED uiVars

\* getCollection("emails") and insertOne(queuedLog), outside any try.
InsertLog(r) ==
  /\ req[r].pc = "insert"
  /\ \/ /\ emails' = InsertOne(emails, QueuedLog(r))
        /\ req' = [req EXCEPT ![r].pc = "send",
                              ![r].insertedId = InsertedId(emails)]
     \/ /\ Crash(r)
        /\ UNCHANGED emails
  /\ UNCHANGED <<env, mongo>>
  /\ UNCHANGED tplVars
  /\ UNCHANGED uiVars

\* Mutant: a failed delivery is retried once before it is logged.
OnSendErrorRetry(r, e) ==
  IF req[r].calls = 0
  THEN req' = [req EXCEPT ![r].calls = @ + 1]
  ELSE req' = [req EXCEPT ![r].pc = "updFailed", ![r].err = e,
                          ![r].calls = @ + 1]

\* `if (error) throw error` and a throwing send both land in the catch.
OnSendError(r, e) ==
  req' = [req EXCEPT ![r].pc = "updFailed", ![r].err = e,
                     ![r].calls = @ + 1]

\* resend.emails.send(...)
Deliver(r) ==
  /\ req[r].pc = "send"
  /\ \/ req' = [req EXCEPT ![r].pc = "updSent",
                           ![r].data = MsgIdOf(r),
                           ![r].calls = @ + 1]
     \/ \E e \in ProviderErrors : OnSendError(r, e)
  /\ UNCHANGED <<env, emails, mongo>>
  /\ UNCHANGED tplVars
  /\ UNCHANGED uiVars

\* Mutant: the $set of the success path records the message id only.
SentUpdateNoStatus(r) == [messageId |-> req[r].data]

\* { $set: { status: "sent", messageId: data?.id } }
SentUpdate(r) == [status |-> "sent", messageId |-> req[r].data]

\* Mutant: the $set of the catch records the status without the error text.
FailedUpdateNoError(r) == [status |-> "failed"]

\* { $set: { status: "failed", error: (err as Error).message } }
FailedUpdate(r) == [status |-> "failed", error |-> req[r].err]

\* try: updateOne(status "sent"), then the 200 response.
MarkSent(r) ==
  /\ req[r].pc = "updSent"
  /\ \/ /\ emails' = UpdateById(emails, StatusFilter(r), SentUpdate(r))
        /\ req' = [req EXCEPT ![r].pc = "done",
                              ![r].resp = Json(200, NoVal, req[r].data)]
     \/ /\ req' = [req EXCEPT ![r].pc = "updFailed", ![r].err = StoreError]
        /\ UNCHANGED emails
  /\ UNCHANGED <<env, mongo>>
  /\ UNCHANGED tplVars
  /\ UNCHANGED uiVars

\* catch: updateOne(status "failed"), then the 500 response.
MarkFailed(r) ==
  /\ req[r].pc = "updFailed"
  /\ \/ /\ emails' = UpdateById(emails, StatusFilter(r), FailedUpdate(r))
        /\ req' = [req EXCEPT ![r].pc = "done",
                              ![r].resp = Json(500, req[r].err, NoVal)]
     \/ /\ Crash(r)
        /\ UNCHANGED emails
  /\ UNCHANGED <<env, mongo>>
  /\ UNCHANGED tplVars
  /\ UNCHANGED uiVars

Next ==
  \E r \in Reqs :
    \/ ReceiveSend(r)
    \/ ReceiveCustom(r)
    \/ Preview(r)
    \/ InsertLog(r)
    \/ Deliver(r)
    \/ MarkSent(r)
    \/ MarkFailed(r)

Spec == Init /\ [][Next]_vars

-----------------------------------------------------------------------------
(* /api/templates/custom: POST, PUT, DELETE *)

Answer(op, b, storeOk, status) ==
  last' = [op |-> op, body |-> b, storeOk |-> storeOk, status |-> status,
           n |-> last.n + 1]

\* POST: create a template under a generated id.
Create ==
  /\ last.n < MaxOps
  /\ \E b \in CreateBodies, storeOk \in BOOLEAN :
       IF Falsy(b.name) \/ Falsy(b.type) \/ Falsy(b.content)
       THEN /\ Answer("POST", b, storeOk, 400)
            /\ UNCHANGED <<custom_templates, nextGen>>
       ELSE IF ~storeOk
       THEN /\ Answer("POST", b, storeOk, 500)
            /\ UNCHANGED <<custom_templates, nextGen>>
       ELSE /\ custom_templates' =
                 Append(custom_templates,
                        Template(GenId(nextGen + 1), b.name, b.type, b.content))
            /\ nextGen' = nextGen + 1
            /\ Answer("POST", b, storeOk, 200)
  /\ UNCHANGED <<imp, rival, exported, phase>>
  /\ UNCHANGED sendVars
  /\ UNCHANGED uiVars

\* PUT: full-record update of the template with the body's id.
Put ==
  /\ last.n < MaxOps
  /\ \E b \in PutBodies, storeOk \in BOOLEAN :
       IF Falsy(b.id) \/ Falsy(b.name) \/ Falsy(b.type) \/ Falsy(b.content)
       THEN /\ Answer("PUT", b, storeOk, 400)
            /\ UNCHANGED custom_templates
       ELSE IF ~storeOk
       THEN /\ Answer("PUT", b, storeOk, 500)
            /\ UNCHANGED custom_templates
       ELSE /\ custom_templates' =
                 UpdateOneByKey(custom_templates, b.id,
                   [name |-> b.name, type |-> b.type, content |-> b.content])
            /\ Answer("PUT", b, storeOk,
                      IF MatchedCount(custom_templates, b.id) = 0
                      THEN 404 ELSE 200)
  /\ UNCHANGED <<nextGen, imp, rival, exported, phase>>
  /\ UNCHANGED sendVars
  /\ UNCHANGED uiVars

\* DELETE ?id=...
Delete ==
  /\ last.n < MaxOps
  /\ \E id \in DeleteIds, storeOk \in BOOLEAN :
       LET b == Template(id, NoVal, NoVal, NoVal)
       IN  IF Falsy(id)
           THEN /\ Answer("DELETE", b, storeOk, 400)
                /\ UNCHANGED custom_templates
           ELSE IF ~storeOk
           THEN /\ Answer("DELETE", b, storeOk, 500)
                /\ UNCHANGED custom_templates
           ELSE /\ custom_templates' = DeleteOneByKey(custom_templates, id)
                /\ Answer("DELETE", b, storeOk,
                          IF MatchedCount(custom_templates, id) = 0
                          THEN 404 ELSE 200)
  /\ UNCHANGED <<nextGen, imp, rival, exported, phase>>
  /\ UNCHANGED sendVars
  /\ UNCHANGED uiVars

-----------------------------------------------------------------------------
(* /api/templates/import: POST *)

\* The request up to the loop: the 400 for a missing or empty templates
\* array, getCollection (which may throw into the outer catch), the counters.
Begun(run, b, o, collOk, prev) ==
  LET m == [IdleImport EXCEPT !.run = run, !.templates = b,
                              !.options = o, !.prev = prev]
  IN  IF b = <<>>
      THEN [m EXCEPT !.pc = "done", !.status = 400]
      ELSE IF ~collOk
      THEN [m EXCEPT !.pc = "done", !.status = 500, !.collOk = FALSE]
      ELSE [m EXCEPT !.pc = "item", !.k = 1]

ImportBegin(b, o, collOk, prev) ==
  imp' = Begun(imp.run + 1, b, o, collOk, prev)

\* End of one iteration: the next item, or the success response after the
\* last one.
Advance(m) ==
  LET n == [m EXCEPT !.k = @ + 1, !.templateId = NoVal, !.existing = FALSE]
  IN  IF m.k = Len(m.templates)
      THEN [n EXCEPT !.pc = "done", !.status = 200]
      ELSE [n EXCEPT !.pc = "item"]

\* results.errors.push(...) for the current item.
WithError(m, why) ==
  [m EXCEPT !.results.errors = Append(@, [item |-> m.k, why |-> why])]

NeedsNewId(item, o) == Falsy(item.id) \/ o.generateNewIds

\* Mutant: every imported item is given a new id.
ImportTemplateIdAlwaysNew(item, o, n) == GenId(n)

\* let templateId = templateData.id; if (!templateId || generateNewIds) ...
ImportTemplateId(item, o, n) ==
  IF NeedsNewId(item, o) THEN GenId(n) ELSE item.id

\* One iteration up to and including findOne.  Reading a field of a null
\* item throws a TypeError in the try and again in the catch of the
\* iteration, so it reaches the outer catch: 500, the loop is left.
ItemIteration(m, mp) ==
  /\ m.pc = "item"
  /\ LET item == m.templates[m.k]
         tid == ImportTemplateId(item, m.options, nextGen + 1)
     IN  IF item.kind = "null"
         THEN /\ mp = [m EXCEPT !.pc = "done", !.status = 500]
              /\ UNCHANGED nextGen
         ELSE IF Falsy(item.name) \/ Falsy(item.type) \/ Falsy(item.content)
         THEN /\ mp = Advance(WithError(m, "missing required fields"))
              /\ UNCHANGED nextGen
         ELSE \/ IF HasId(custom_templates, tid) /\ ~m.options.overwrite
                 THEN /\ mp = Advance([m EXCEPT !.results.skipped = @ + 1])
                      /\ UNCHANGED nextGen
                 ELSE /\ mp = [m EXCEPT
                                   !.pc = "write", !.templateId = tid,
                                   !.existing = HasId(custom_templates, tid)]
                      /\ nextGen' = IF tid = GenId(nextGen + 1)
                                    THEN nextGen + 1 ELSE nextGen
              \/ /\ mp = Advance(WithError(m, "findOne failed"))
                 /\ UNCHANGED nextGen

\* The iteration of the import request.
ImportItem ==
  /\ ItemIteration(imp, imp')
  /\ UNCHANGED <<custom_templates, last, rival, exported, phase>>
  /\ UNCHANGED sendVars
  /\ UNCHANGED uiVars

\* The rest of the iteration: updateOne of an existing template when
\* overwrite is set, insertOne otherwise.
WriteIteration(m, mp) ==
  /\ m.pc = "write"
  /\ LET item == m.templates[m.k]
         templateToSave ==
           Template(m.templateId, item.name, item.type, item.content)
     IN  IF m.existing /\ m.options.overwrite
         THEN \/ /\ custom_templates' =
                      UpdateOneByKey(custom_templates, m.templateId,
                                     templateToSave)
                 /\ mp = Advance([m EXCEPT
                                    !.results.updated = @ + 1,
                                    !.overwritten =
                                      @ + MatchedCount(custom_templates,
                                                       m.templateId)])
              \/ /\ mp = Advance(WithError(m, "updateOne failed"))
                 /\ UNCHANGED custom_templates
         ELSE \/ /\ custom_templates' = Append(custom_templates, templateToSave)
                 /\ mp = Advance([m EXCEPT !.results.imported = @ + 1,
                                           !.inserted = @ + 1])
              \/ /\ mp = Advance(WithError(m, "insertOne failed"))
                 /\ UNCHANGED custom_templates

\* The write of the import request.
ImportWrite ==
  /\ WriteIteration(imp, imp')
  /\ UNCHANGED <<nextGen, last, rival, exported, phase>>
  /\ UNCHANGED sendVars
  /\ UNCHANGED uiVars

\* An import request with any body.
ImportReceive ==
  /\ imp.pc = "idle"
  /\ \E b \in Bundles \cup {<<>>}, o \in ImportOptions, collOk \in BOOLEAN :
       ImportBegin(b, o, collOk, NoPrev)
  /\ UNCHANGED <<custom_templates, nextGen, last, rival, exported, phase>>
  /\ UNCHANGED sendVars
  /\ UNCHANGED uiVars

SendIdle ==
  /\ env = [RESEND_API_KEY |-> "re_key"]
  /\ emails = <<>>
  /\ req = [r \in Reqs |-> IdleReq]
  /\ mongo = Loaded("mongodb://db")

InitCrud ==
  /\ SendIdle
  /\ TplIdle
  /\ UiIdle
  /\ custom_templates \in Stores
  /\ phase = "none"

NextCrud ==
  \/ Create
  \/ Put
  \/ Delete

SpecCrud == InitCrud /\ [][NextCrud]_vars

InitImport ==
  /\ SendIdle
  /\ TplIdle
  /\ UiIdle
  /\ custom_templates \in Stores
  /\ phase = "none"

NextImport ==
  \/ ImportReceive
  \/ ImportItem
  \/ ImportWrite

SpecImport == InitImport /\ [][NextImport]_vars

-----------------------------------------------------------------------------
(* Requests against "custom_templates" that run at the same time *)

\* Create and delete requests that arrive while imports run.
MaxRaceOps == 1

\* A second client posts the body the first one posted, while the first
\* import is under way.
RivalReceive ==
  /\ rival.pc = "idle"
  /\ imp.pc \in {"item", "write"}
  /\ \E collOk \in BOOLEAN :
       rival' = Begun(1, imp.templates, imp.options, collOk, NoPrev)
  /\ UNCHANGED <<custom_templates, nextGen, last, imp, exported, phase>>
  /\ UNCHANGED sendVars
  /\ UNCHANGED uiVars

\* The iteration of the second import request.
RivalItem ==
  /\ ItemIteration(rival, rival')
  /\ UNCHANGED <<custom_templates, last, imp, exported, phase>>
  /\ UNCHANGED sendVars
  /\ UNCHANGED uiVars

\* The write of the second import request.
RivalWrite ==
  /\ WriteIteration(rival, rival')
  /\ UNCHANGED <<nextGen, last, imp, exported, phase>>
  /\ UNCHANGED sendVars
  /\ UNCHANGED uiVars

\* A create or delete request arrives while an import is under way.
RaceOp == last.n < MaxRaceOps /\ imp.pc \in {"item", "write"}

\* Whether no two documents of the collection have the same id.
UniqueIds(coll) ==
  \A i, j \in 1..Len(coll) : coll[i].id = coll[j].id => i = j

\* The store holds documents of distinct ids when the requests arrive.
InitRace ==
  /\ SendIdle
  /\ TplIdle
  /\ UiIdle
  /\ custom_templates \in { st \in Stores : UniqueIds(st) }
  /\ phase = "none"

NextRace ==
  \/ ImportReceive
  \/ ImportItem
  \/ ImportWrite
  \/ RivalReceive
  \/ RivalItem
  \/ RivalWrite
  \/ RaceOp /\ Create
  \/ RaceOp /\ Delete

SpecRace == InitRace /\ [][NextRace]_vars

-----------------------------------------------------------------------------
(* Callers of lib/mongodb that run at the same time *)

InitMongo ==
  /\ env = [RESEND_API_KEY |-> "re_key"]
  /\ emails = <<>>
  /\ req = [r \in Reqs |-> IdleReq]
  /\ mongo \in { Loaded(uri) : uri \in {"", "mongodb://db"} }
  /\ TplIdle
  /\ UiIdle
  /\ custom_templates = <<>>
  /\ phase = "none"

NextMongo ==
  \E c \in Callers :
    \/ \E entry \in Entries : CallModule(c, entry)
    \/ Connect(c)
    \/ SetDb(c)

SpecMongo == InitMongo /\ [][NextMongo]_vars

-----------------------------------------------------------------------------
(* /api/templates/export: GET, and a client importing what it exported *)

\* GET ?ids=...&format=...: `ids` is the set of ids asked for, {} when the
\* parameter is absent (no filter).  A format other than json is answered
\* 400 and a store failure 500; neither gives the client a bundle.
Export ==
  /\ phase = "export"
  /\ \E ids \in SUBSET TemplateIds, format \in {"json", "zip"},
        storeOk \in BOOLEAN :
       IF format = "json" /\ storeOk
       THEN /\ exported' = IF ids = {} THEN custom_templates
                           ELSE SelectSeq(custom_templates,
                                          LAMBDA t : t.id \in ids)
            /\ phase' = "exported"
       ELSE UNCHANGED <<exported, phase>>
  /\ UNCHANGED <<custom_templates, nextGen, last, imp, rival>>
  /\ UNCHANGED sendVars
  /\ UNCHANGED uiVars

\* The bundle is imported into a store that holds any documents: the store
\* it was exported from, later, or the store of another deployment.
Retarget ==
  /\ phase = "exported"
  /\ custom_templates' \in Stores
  /\ phase' = "import"
  /\ UNCHANGED <<nextGen, last, imp, rival, exported>>
  /\ UNCHANGED sendVars
  /\ UNCHANGED uiVars

\* The exported templates, as the items of an import body.
AsItems(ts) ==
  [i \in 1..Len(ts) |->
     Item("object", ts[i].id, ts[i].name, ts[i].type, ts[i].content)]

\* The client posts the exported bundle with generateNewIds not set, and
\* posts it once more after an import that reported no error.
ImportExported ==
  /\ phase = "import"
  /\ \/ imp.pc = "idle"
     \/ /\ imp.pc = "done" /\ imp.run = 1
        /\ imp.status = 200 /\ imp.results.errors = <<>>
  /\ UNCHANGED phase
  /\ \E o \in {x \in ImportOptions : ~x.generateNewIds},
        collOk \in BOOLEAN :
       ImportBegin(AsItems(exported), o, collOk,
                   [run |-> imp.run, options |-> imp.options,
                    results |-> imp.results, status |-> imp.status])
  /\ UNCHANGED <<custom_templates, nextGen, last, rival, exported>>
  /\ UNCHANGED sendVars
  /\ UNCHANGED uiVars

InitIdem ==
  /\ SendIdle
  /\ TplIdle
  /\ UiIdle
  /\ custom_templates \in Stores
  /\ phase = "export"

NextIdem ==
  \/ Export
  \/ Retarget
  \/ ImportExported
  \/ ImportItem
  \/ ImportWrite

SpecIdem == InitIdem /\ [][NextIdem]_vars

-----------------------------------------------------------------------------
(* Properties of the send path *)

Ended(r) == req[r].pc \in {"done", "crashed"}

\* The log documents request r inserted.
RecordsOf(r) == {i \in 1..Len(emails) : emails[i].owner = r}

\* Request r takes the step.
Acts(r) == req'[r] # req[r]

Configured == env.RESEND_API_KEY # ""

DeliveryFailed(r) == req[r].calls > 0 /\ req[r].data = NoVal

LacksRequired(b) ==
  \/ b.to = NoVal
  \/ b.subject = NoVal
  \/ b.kind = "send" /\ b.templateId = NoVal
  \/ b.kind = "custom" /\ b.content = NoVal

C2_InsertThenDeliverThenSameId ==
  [][\A r \in Reqs :
       Acts(r) =>
         /\ req'[r].calls > req[r].calls =>
              \E i \in RecordsOf(r) :
                /\ i = req[r].insertedId
                /\ emails[i].status = "queued"
         /\ req[r].pc \in {"updSent", "updFailed"} =>
              /\ Len(emails') = Len(emails)
              /\ \A i \in 1..Len(emails) :
                   emails'[i] # emails[i] =>
                     /\ i \in RecordsOf(r)
                     /\ emails'[i].status \in {"sent", "failed"}
    ]_vars

\* C2 witness: two requests have both delivered and both status updates
\* have been applied, one sent and one failed.
C2_Witness ==
  \E r, q \in Reqs :
    /\ req[r].pc = "done" /\ req[q].pc = "done"
    /\ \E i \in RecordsOf(r) : emails[i].status = "sent"
    /\ \E j \in RecordsOf(q) : emails[j].status = "failed"

C4_AtMostOneDelivery == \A r \in Reqs : req[r].calls <= 1

\* C4 witness: a request whose delivery failed has ended after its one call.
C4_Witness ==
  \E r \in Reqs : Ended(r) /\ DeliveryFailed(r) /\ req[r].calls = 1

\* C5: under every interleaving, a request has at most one log record, a
\* step of a request leaves every record of another request as it was, and
\* a new record is the acting request's own.
C5_OwnRecordOnly ==
  /\ [](\A r \in Reqs : Cardinality(RecordsOf(r)) <= 1)
  /\ [][\A r \in Reqs :
          Acts(r) =>
            /\ Len(emails') >= Len(emails)
            /\ \A i \in 1..Len(emails) :
                 emails[i].owner # r => emails'[i] = emails[i]
            /\ \A i \in (Len(emails) + 1)..Len(emails') :
                 emails'[i].owner = r
       ]_vars

\* C5 witness: the second request to insert finished its status update
\* while the first request's record was still queued.
C5_Witness ==
  \E r, q \in Reqs :
    /\ r # q
    /\ \E i \in RecordsOf(r), j \in RecordsOf(q) :
         /\ i < j
         /\ emails[i].status = "queued"
         /\ emails[j].status \in {"sent", "failed"}

RegistryIds == {templates[i].id : i \in 1..Len(templates)}

\* C6: a send or preview request whose templateId is not registered is
\* answered 404 (send: by a server that has its provider key; without the
\* key every send is answered 500 before the lookup), and it writes no log
\* record and makes no delivery call.
C6_UnknownTemplate ==
  \A r \in Reqs :
    (Ended(r) /\ req[r].body.kind \in {"send", "preview"}
              /\ req[r].body.templateId \notin RegistryIds) =>
      /\ (req[r].body.kind = "preview" \/ Configured) =>
            req[r].resp.status = 404
      /\ RecordsOf(r) = {}
      /\ req[r].calls = 0

\* C6 witness: an unknown templateId was answered 404 for a send and for a
\* preview.
C6_Witness ==
  \E r, q \in Reqs :
    /\ req[r].body.kind = "send" /\ req[r].body.templateId = "nope"
    /\ req[r].resp.status = 404
    /\ req[q].body.kind = "preview" /\ req[q].body.templateId = "nope"
    /\ req[q].resp.status = 404

\* C7: a built-in or freeform send whose body lacks `to`, `subject` or its
\* content/template reference is answered 400 with a message.
C7_MissingFieldRejected ==
  \A r \in Reqs :
    (Ended(r) /\ Configured /\ req[r].body.kind \in {"send", "custom"}
              /\ LacksRequired(req[r].body)) =>
      /\ req[r].resp.status = 400
      /\ req[r].resp.error # NoVal

-----------------------------------------------------------------------------
(* Properties of the custom-template store *)

ImportDone == imp.pc = "done"

\* The import answered with the success response and no per-item error.
CleanRun(status, results) == status = 200 /\ results.errors = <<>>

\* Items of an import body the loop has accounted for in its results.
Accounted(results) ==
  results.imported + results.updated + results.skipped + Len(results.errors)

WellFormedWrite(request) ==
  IF request.op = "PUT"
  THEN ~(\/ Falsy(request.body.id) \/ Falsy(request.body.name)
         \/ Falsy(request.body.type) \/ Falsy(request.body.content))
  ELSE ~Falsy(request.body.id)

\* C8: a client imports the bundle it exported (N valid templates, each
\* under its exported id, generateNewIds not set) and, after that import
\* completed without error, imports the same bundle again.  When the second
\* import completes without error it reports imported 0 and skipped N with
\* overwrite false, and updated N and skipped 0 (and imported 0) with
\* overwrite true.
C8_ImportIdempotent ==
  ( /\ ImportDone
    /\ imp.run = 2
    /\ CleanRun(imp.prev.status, imp.prev.results)
    /\ ~imp.prev.options.generateNewIds
    /\ CleanRun(imp.status, imp.results)
    /\ ~imp.options.generateNewIds ) =>
      LET N == Len(imp.templates)
      IN  IF imp.options.overwrite
          THEN /\ imp.results.updated = N
               /\ imp.results.skipped = 0
               /\ imp.results.imported = 0
          ELSE /\ imp.results.imported = 0
               /\ imp.results.skipped = N
               /\ imp.results.updated = 0

\* A second import without overwrite has skipped a bundle of at least two
\* templates, of which the first import had inserted at least one.
C8_Witness ==
  /\ ImportDone
  /\ imp.run = 2
  /\ CleanRun(imp.status, imp.results)
  /\ ~imp.options.overwrite
  /\ Len(imp.templates) >= 2
  /\ imp.results.skipped = Len(imp.templates)
  /\ imp.prev.results.imported >= 1

\* C9: an import whose body has a non-empty templates array and whose
\* collection handle was obtained ends with the success response, and every
\* item of the batch is accounted for: imported, updated, skipped, or one
\* error string.
C9_BatchNeverAborted ==
  (ImportDone /\ imp.templates # <<>> /\ imp.collOk) =>
    /\ imp.status = 200
    /\ Accounted(imp.results) = Len(imp.templates)

\* The batches C9 holds for: when no item of the array is null, the import
\* ends with the success response and accounts for every item.
C9_ObjectBatchNeverAborted ==
  ( /\ ImportDone /\ imp.templates # <<>> /\ imp.collOk
    /\ \A i \in 1..Len(imp.templates) : imp.templates[i].kind = "object" ) =>
      /\ imp.status = 200
      /\ Accounted(imp.results) = Len(imp.templates)

\* C10: a well-formed PUT or DELETE that the store answers and whose id
\* matches no stored template is answered 404; a PUT or DELETE whose id
\* matches no stored template leaves the store as it was; a PUT answered
\* 200 leaves the number of templates as it was, changes no template under
\* another id, and keeps the id of the one it changes.
C10_NotFoundAndUpdateLocal ==
  [][ last'.n # last.n =>
        /\ ( /\ last'.op \in {"PUT", "DELETE"}
             /\ ~HasId(custom_templates, last'.body.id) ) =>
               /\ custom_templates' = custom_templates
               /\ (WellFormedWrite(last') /\ last'.storeOk) =>
                     last'.status = 404
        /\ (last'.op = "PUT" /\ last'.status = 200) =>
               /\ Len(custom_templates') = Len(custom_templates)
               /\ \A i \in 1..Len(custom_templates) :
                    custom_templates'[i] # custom_templates[i] =>
                      /\ custom_templates[i].id = last'.body.id
                      /\ custom_templates'[i].id = last'.body.id
                      /\ custom_templates'[i].name = last'.body.name
  ]_vars

\* A well-formed PUT with an unknown id was answered 404 by a store that
\* holds templates.
C10_Witness ==
  /\ last.op = "PUT"
  /\ last.storeOk
  /\ WellFormedWrite(last)
  /\ last.status = 404
  /\ custom_templates # <<>>
  /\ ~HasId(custom_templates, last.body.id)

\* type: "html" | "react" | "css" | "javascript" | "plaintext"
TemplateTypes == {"html", "react", "css", "javascript", "plaintext"}

\* C11: every stored custom template has a type that is one of html, react,
\* css, javascript, plaintext.
C11_StoredTypesValid ==
  \A i \in 1..Len(custom_templates) : custom_templates[i].type \in TemplateTypes

-----------------------------------------------------------------------------
(* The builder's text: strings                                             *)
(*                                                                         *)
(* A string is a sequence of atoms.  An atom is one character, or a run of *)
(* lower-case letters and digits that stands where no pattern of the code  *)
(* looks inside it ("strong", "8px"); upper-case letters, punctuation and   *)
(* white space are always atoms of their own, and so is every character of *)
(* a value a user types.                                                   *)

IsSpace(a) == a \in {" ", "\n"}

IsDigit(a) == a \in {"0", "1", "2", "3", "4", "5", "6", "7", "8", "9"}

\* s[i], or the empty string beyond either end of s.
At(s, i) == IF i >= 1 /\ i <= Len(s) THEN s[i] ELSE ""

\* The least element of a non-empty set of indices.
Least(S) == CHOOSE p \in S : \A x \in S : p <= x

\* The index after the longest run of atoms of cls that starts at i.
Skip(s, i, cls) ==
  LET stops == { j \in i..Len(s) : s[j] \notin cls }
  IN  IF i > Len(s) THEN i
      ELSE IF stops = {} THEN Len(s) + 1 ELSE Least(stops)

\* The index after the longest run of atoms outside cls that starts at i.
SkipNot(s, i, cls) ==
  LET stops == { j \in i..Len(s) : s[j] \in cls }
  IN  IF i > Len(s) THEN i
      ELSE IF stops = {} THEN Len(s) + 1 ELSE Least(stops)

\* The strings parts[lo], ..., parts[hi] one after the other.
RECURSIVE Concat(_, _, _)
Concat(parts, lo, hi) ==
  IF lo > hi THEN <<>>
  ELSE IF lo = hi THEN parts[lo]
  ELSE Concat(parts, lo, (lo + hi) \div 2)
       \o Concat(parts, (lo + hi) \div 2 + 1, hi)

\* s.replace(/a/g, rep) for a one-character pattern.
Replace(s, a, rep) ==
  Concat([k \in 1..Len(s) |-> IF s[k] = a THEN rep ELSE <<s[k]>>], 1, Len(s))

\* Whether the atoms of pat stand in s from index i.
HasAt(s, i, pat) ==
  /\ i >= 1
  /\ i + Len(pat) - 1 <= Len(s)
  /\ SubSeq(s, i, i + Len(pat) - 1) = pat

\* s.trim()
RECURSIVE TrimEnd(_)
TrimEnd(s) ==
  IF s # <<>> /\ IsSpace(s[Len(s)]) THEN TrimEnd(SubSeq(s, 1, Len(s) - 1))
  ELSE s

Trim(s) == TrimEnd(SubSeq(s, Skip(s, 1, {" ", "\n"}), Len(s)))

\* s.split(sep) for a one-character separator.
RECURSIVE Split(_, _)
Split(s, sep) ==
  LET j == SkipNot(s, 1, {sep})
  IN  IF j > Len(s) THEN <<s>>
      ELSE <<SubSeq(s, 1, j - 1)>> \o Split(SubSeq(s, j + 1, Len(s)), sep)

\* parts.join(sep)
Join(parts, sep) ==
  Concat([k \in 1..Len(parts) |->
            IF k = 1 THEN parts[k] ELSE sep \o parts[k]], 1, Len(parts))

\* At how many indices of s the atoms of pat stand.
Count(s, pat) == Cardinality({ i \in 1..Len(s) : HasAt(s, i, pat) })

Open(tag) == <<"<", tag, ">">>

Close(tag) == <<"<", "/", tag, ">">>

-----------------------------------------------------------------------------
(* The builder's text: escaping and inline emphasis *)

\* escapeHtml: the five replacements in the order the code chains them.
escapeHtml(s) ==
  LET t1 == Replace(s, "&", <<"&", "amp", ";">>)
      t2 == Replace(t1, "<", <<"&", "lt", ";">>)
      t3 == Replace(t2, ">", <<"&", "gt", ";">>)
      t4 == Replace(t3, "\"", <<"&", "quot", ";">>)
  IN  Replace(t4, "'", <<"&", "#", "39", ";">>)

\* t.replace(/mm([^m]+)mm/g, '<strong>$1</strong>') for the marker m, from
\* index i on: leftmost match first, the class taken greedily.
RECURSIVE Bold(_, _, _)
Bold(s, m, i) ==
  IF i > Len(s) THEN <<>>
  ELSE LET j == SkipNot(s, i + 2, {m})
       IN  IF /\ At(s, i) = m /\ At(s, i + 1) = m
              /\ j > i + 2
              /\ At(s, j) = m /\ At(s, j + 1) = m
           THEN Open("strong") \o SubSeq(s, i + 2, j - 1) \o Close("strong")
                \o Bold(s, m, j + 2)
           ELSE <<s[i]>> \o Bold(s, m, i + 1)

\* t.replace(/(?<!m)m([^m]+)m(?!m)/g, '<em>$1</em>') for the marker m.
RECURSIVE Italic(_, _, _)
Italic(s, m, i) ==
  IF i > Len(s) THEN <<>>
  ELSE LET j == SkipNot(s, i + 1, {m})
       IN  IF /\ At(s, i) = m /\ At(s, i - 1) # m
              /\ j > i + 1
              /\ At(s, j) = m /\ At(s, j + 1) # m
           THEN Open("em") \o SubSeq(s, i + 1, j - 1) \o Close("em")
                \o Italic(s, m, j + 1)
           ELSE <<s[i]>> \o Italic(s, m, i + 1)

\* Mutant: the export's toInline lacks the pattern for `__text__`.
toInlineNoUnderscoreBold(s) ==
  LET t0 == escapeHtml(s)
      t1 == Bold(t0, "*", 1)
      t3 == Italic(t1, "*", 1)
  IN  Italic(t3, "_", 1)

\* toInline of EmailElementRenderer (the canvas).
toInlineCanvas(s) ==
  LET t0 == escapeHtml(s)
      t1 == Bold(t0, "*", 1)
      t2 == Bold(t1, "_", 1)
      t3 == Italic(t2, "*", 1)
  IN  Italic(t3, "_", 1)

\* toInline of generateEmailHTML (the exported document).
toInline(s) ==
  LET t0 == escapeHtml(s)
      t1 == Bold(t0, "*", 1)
      t2 == Bold(t1, "_", 1)
      t3 == Italic(t2, "*", 1)
  IN  Italic(t3, "_", 1)

-----------------------------------------------------------------------------
(* The builder's text: mdInlineToHtml *)

sizes == <<32, 28, 24, 20, 18, 16>>

Min(a, b) == IF a < b THEN a ELSE b

Max(a, b) == IF a > b THEN a ELSE b

\* sizes[Math.min(Math.max(level, 1), 6) - 1], the array counted from 0.
headingSize(level) == sizes[Min(Max(level, 1), 6)]

\* The hashes (#{1,6}) takes in /^(#{1,6})\s+(.*)$/: the greatest k in 1..6
\* with k hashes followed by white space; 0 when the line does not match.
Hashes(line) ==
  LET ks == { k \in 1..6 :
                /\ \A i \in 1..k : At(line, i) = "#"
                /\ IsSpace(At(line, k + 1)) }
  IN  IF ks = {} THEN 0 ELSE CHOOSE k \in ks : \A x \in ks : x <= k

\* What follows a line's marker and the white space after it: (.*) after \s+.
Rest(line, afterMarker) ==
  SubSeq(line, Skip(line, afterMarker, {" ", "\n"}), Len(line))

\* /^\d+\.\s+(.*)$/: the index after the dot, 0 when the line does not match.
OrderedMarker(line) ==
  LET d == Skip(line, 1, {"0", "1", "2", "3", "4", "5", "6", "7", "8", "9"})
  IN  IF d > 1 /\ At(line, d) = "." /\ IsSpace(At(line, d + 1))
      THEN d + 1 ELSE 0

\* /^[-*]\s+(.*)$/: the index after the marker, 0 when the line does not match.
BulletMarker(line) ==
  IF At(line, 1) \in {"-", "*"} /\ IsSpace(At(line, 2)) THEN 2 ELSE 0

\* /^\s*[-*]\s+(.*)$/ of the export: leading white space is allowed.
IndentedBulletMarker(line) ==
  LET b == Skip(line, 1, {" ", "\n"})
  IN  IF At(line, b) \in {"-", "*"} /\ IsSpace(At(line, b + 1))
      THEN b + 1 ELSE 0

closeList(listOpen) == IF listOpen # "null" THEN Close(listOpen) ELSE <<>>

HeadingBlock(lvl, inner) ==
  <<"<", "h" \o ToString(lvl), " ", "style", "=", "\"", "margin", ":", "8px",
    " ", "0", ";", "font", "-", "size", ":",
    ToString(headingSize(lvl)) \o "px", ";", "font", "-", "weight", ":",
    "700", ";", "\"", ">">>
  \o inner \o Close("h" \o ToString(lvl))

ListStart(kind) ==
  <<"<", kind, " ", "style", "=", "\"", "margin", ":", "8px", " ", "0", " ",
    "8px", " ", "20px", ";", "\"", ">">>

\* A start tag unless a list of this kind is open; an open list of the
\* other kind stays open.
EnterListKeepOpen(listOpen, kind) ==
  IF listOpen = kind THEN <<>> ELSE ListStart(kind)

\* Opening a list of `kind` at a line: an open list of the other kind is
\* closed, and a start tag is pushed unless a list of this kind is open.
EnterList(listOpen, kind) ==
  (IF listOpen # "null" /\ listOpen # kind THEN closeList(listOpen) ELSE <<>>)
  \o (IF listOpen = kind THEN <<>> ELSE ListStart(kind))

\* The loop of the canvas mdInlineToHtml from line k on, with the list that
\* is open; blocks are joined with the empty string.
RECURSIVE CanvasBlocks(_, _, _)
CanvasBlocks(lines, k, listOpen) ==
  IF k > Len(lines) THEN closeList(listOpen)
  ELSE LET trimmed == Trim(lines[k])
           h == Hashes(trimmed)
           ol == OrderedMarker(trimmed)
           ul == BulletMarker(trimmed)
       IN  IF trimmed = <<>>
           THEN closeList(listOpen) \o CanvasBlocks(lines, k + 1, "null")
           ELSE IF h > 0
           THEN closeList(listOpen)
                \o HeadingBlock(h, toInlineCanvas(Rest(trimmed, h + 1)))
                \o CanvasBlocks(lines, k + 1, "null")
           ELSE IF ol > 0
           THEN EnterList(listOpen, "ol")
                \o Open("li") \o toInlineCanvas(Rest(trimmed, ol + 1))
                \o Close("li")
                \o CanvasBlocks(lines, k + 1, "ol")
           ELSE IF ul > 0
           THEN EnterList(listOpen, "ul")
                \o Open("li") \o toInlineCanvas(Rest(trimmed, ul + 1))
                \o Close("li")
                \o CanvasBlocks(lines, k + 1, "ul")
           ELSE closeList(listOpen)
                \o <<"<", "p", " ", "style", "=", "\"", "margin", ":", "8px",
                     " ", "0", ";", "\"", ">">>
                \o toInlineCanvas(trimmed) \o Close("p")
                \o CanvasBlocks(lines, k + 1, "null")

\* mdInlineToHtml of EmailElementRenderer (the canvas).
mdInlineToHtmlCanvas(s) ==
  IF s = <<>> THEN <<>> ELSE CanvasBlocks(Split(s, "\n"), 1, "null")

\* One line of the export's mdInlineToHtml.
ExportLine(line) ==
  LET h == Hashes(line)
      b == IndentedBulletMarker(line)
  IN  IF h > 0
      THEN <<"<", "span", " ", "style", "=", "\"", "display", ":", "block",
             ";", " ", "font", "-", "weight", ":", "700", ";", " ", "font",
             "-", "size", ":", ToString(headingSize(h)) \o "px", ";", " ",
             "margin", ":", " ", "8px", " ", "0", ";", "\"", ">">>
           \o toInline(Rest(line, h + 1)) \o Close("span")
      ELSE IF b > 0
      THEN <<"<", "span", " ", "style", "=", "\"", "display", ":", "block",
             ";", "\"", ">", "(bullet)", " ">>
           \o toInline(Rest(line, b + 1)) \o Close("span")
      ELSE Open("span") \o toInline(line) \o Close("span")

\* mdInlineToHtml of generateEmailHTML (the exported document).
mdInlineToHtml(s) ==
  IF s = <<>> THEN <<>>
  ELSE LET lines == Split(s, "\n")
       IN  Join([k \in 1..Len(lines) |-> ExportLine(lines[k])],
                <<"<", "br", ">">>)

-----------------------------------------------------------------------------
(* The component catalog: EMAIL_COMPONENTS and TEMPLATE_BLOCKS *)

Prop(key, value) == [key |-> key, value |-> value]

\* One editableProps entry: the name, the kind of input, the select options
\* and the default the property editor shows.
Editable(name, type, options, default) ==
  [name |-> name, type |-> type, options |-> options, default |-> default]

\* The basic components, in the order of the catalog.
EMAIL_COMPONENTS ==
  <<[id |-> "heading",
   defaultProps |->
     <<Prop(<<"children">>, <<"Y", "our", " ", "H", "eading", " ", "H", "ere">>),
       Prop(<<"as">>, <<"h1">>),
       Prop(<<"class", "N", "ame">>, <<"text", "-", "[", "32px", "]", " ", "font", "-", "bold", " ",
            "text", "-", "gray", "-", "900", " ", "leading", "-", "[",
            "40px", "]", " ", "mb", "-", "[", "16px", "]">>)>>,
   editableProps |->
     <<Editable(<<"children">>, "text", {},
                <<"Y", "our", " ", "H", "eading", " ", "H", "ere">>),
       Editable(<<"as">>, "select", {<<"h1">>, <<"h2">>, <<"h3">>, <<"h4">>},
                <<"h1">>),
       Editable(<<"color">>, "color", {},
                <<"#", "111827">>),
       Editable(<<"font", "S", "ize">>, "number", {},
                <<"32">>),
       Editable(<<"text", "A", "lign">>, "select", {<<"left">>, <<"center">>, <<"right">>},
                <<"left">>)>>,
   template |->
     <<"<", "H", "eading", " ", "as", "=", "\"", "{", "as", "}", "\"",
       " ", "class", "N", "ame", "=", "\"", "{", "class", "N", "ame", "}",
       "\"", " ", "style", "=", "{", "{", "color", ":", " ", "\"", "{",
       "color", "}", "\"", ",", " ", "font", "S", "ize", ":", " ", "\"",
       "{", "font", "S", "ize", "}", "px", "\"", ",", " ", "text", "A",
       "lign", ":", " ", "\"", "{", "text", "A", "lign", "}", "\"", "}",
       "}", ">", "{", "children", "}", "<", "/", "H", "eading", ">">>],

  [id |-> "text",
   defaultProps |->
     <<Prop(<<"children">>, <<"Y", "our", " ", "paragraph", " ", "text", " ", "goes", " ",
            "here", ".", " ", "T", "his", " ", "can", " ", "be", " ",
            "multiple", " ", "sentences", " ", "describing", " ", "your",
            " ", "content", ".">>),
       Prop(<<"class", "N", "ame">>, <<"text", "-", "[", "16px", "]", " ", "text", "-", "gray", "-",
            "700", " ", "leading", "-", "[", "24px", "]">>)>>,
   editableProps |->
     <<Editable(<<"children">>, "textarea", {},
                <<"Y", "our", " ", "paragraph", " ", "text", " ", "goes", " ", "here", ".">>),
       Editable(<<"color">>, "color", {},
                <<"#", "374151">>),
       Editable(<<"font", "S", "ize">>, "number", {},
                <<"16">>),
       Editable(<<"line", "H", "eight">>, "number", {},
                <<"24">>),
       Editable(<<"text", "A", "lign">>, "select", {<<"left">>, <<"center">>, <<"right">>},
                <<"left">>)>>,
   template |->
     <<"<", "T", "ext", " ", "class", "N", "ame", "=", "\"", "{", "class",
       "N", "ame", "}", "\"", " ", "style", "=", "{", "{", "color", ":",
       " ", "\"", "{", "color", "}", "\"", ",", " ", "font", "S", "ize",
       ":", " ", "\"", "{", "font", "S", "ize", "}", "px", "\"", ",", " ",
       "line", "H", "eight", ":", " ", "\"", "{", "line", "H", "eight",
       "}", "px", "\"", ",", " ", "text", "A", "lign", ":", " ", "\"",
       "{", "text", "A", "lign", "}", "\"", "}", "}", ">", "{",
       "children", "}", "<", "/", "T", "ext", ">">>],

  [id |-> "button",
   defaultProps |->
     <<Prop(<<"href">>, <<"https", ":", "/", "/", "example", ".", "com">>),
       Prop(<<"children">>, <<"C", "lick", " ", "H", "ere">>),
       Prop(<<"class", "N", "ame">>, <<"bg", "-", "indigo", "-", "600", " ", "rounded", "-", "[",
            "8px", "]", " ", "text", "-", "white", " ", "text", "-", "[",
            "16px", "]", " ", "font", "-", "bold", " ", "p", "-", "[",
            "12px", "_", "24px", "]", " ", "text", "-", "center", " ",
            "inline", "-", "block">>)>>,
   editableProps |->
     <<Editable(<<"children">>, "text", {},
                <<"C", "lick", " ", "H", "ere">>),
       Editable(<<"href">>, "url", {},
                <<"https", ":", "/", "/", "example", ".", "com">>),
       Editable(<<"background", "C", "olor">>, "color", {},
                <<"#", "4f46e5">>),
       Editable(<<"text", "C", "olor">>, "color", {},
                <<"#", "ffffff">>),
       Editable(<<"border", "R", "adius">>, "number", {},
                <<"8">>),
       Editable(<<"font", "S", "ize">>, "number", {},
                <<"16">>),
       Editable(<<"padding">>, "spacing", {},
                <<"12px", " ", "24px">>)>>,
   template |->
     <<"<", "B", "utton", " ", "href", "=", "\"", "{", "href", "}", "\"",
       " ", "class", "N", "ame", "=", "\"", "{", "class", "N", "ame", "}",
       "\"", " ", "style", "=", "{", "{", "background", "C", "olor", ":",
       " ", "\"", "{", "background", "C", "olor", "}", "\"", ",", " ",
       "color", ":", " ", "\"", "{", "text", "C", "olor", "}", "\"", ",",
       " ", "border", "R", "adius", ":", " ", "\"", "{", "border", "R",
       "adius", "}", "px", "\"", ",", " ", "font", "S", "ize", ":", " ",
       "\"", "{", "font", "S", "ize", "}", "px", "\"", ",", " ",
       "padding", ":", " ", "\"", "{", "padding", "}", "\"", "}", "}",
       ">", "{", "children", "}", "<", "/", "B", "utton", ">">>],

  [id |-> "image",
   defaultProps |->
     <<Prop(<<"src">>, <<"https", ":", "/", "/", "via", ".", "placeholder", ".",
            "com", "/", "600x300">>),
       Prop(<<"alt">>, <<"P", "laceholder", " ", "image">>),
       Prop(<<"width">>, <<"600">>),
       Prop(<<"height">>, <<"300">>),
       Prop(<<"class", "N", "ame">>, <<"w", "-", "full", " ", "rounded", "-", "[", "12px", "]", " ",
            "object", "-", "cover">>)>>,
   editableProps |->
     <<Editable(<<"src">>, "url", {},
                <<"https", ":", "/", "/", "via", ".", "placeholder", ".", "com", "/", "600x300">>),
       Editable(<<"alt">>, "text", {},
                <<"P", "laceholder", " ", "image">>),
       Editable(<<"width">>, "number", {},
                <<"600">>),
       Editable(<<"height">>, "number", {},
                <<"300">>),
       Editable(<<"border", "R", "adius">>, "number", {},
                <<"12">>)>>,
   template |->
     <<"<", "I", "mg", " ", "src", "=", "\"", "{", "src", "}", "\"", " ",
       "alt", "=", "\"", "{", "alt", "}", "\"", " ", "width", "=", "{",
       "width", "}", " ", "height", "=", "{", "height", "}", " ", "class",
       "N", "ame", "=", "\"", "{", "class", "N", "ame", "}", "\"", " ",
       "style", "=", "{", "{", "border", "R", "adius", ":", " ", "\"",
       "{", "border", "R", "adius", "}", "px", "\"", "}", "}", " ", "/",
       ">">>],

  [id |-> "section",
   defaultProps |->
     <<Prop(<<"class", "N", "ame">>, <<"my", "-", "[", "16px", "]">>),
       Prop(<<"children">>, <<>>)>>,
   editableProps |->
     <<Editable(<<"background", "C", "olor">>, "color", {},
                <<"transparent">>),
       Editable(<<"padding">>, "spacing", {},
                <<"16px">>),
       Editable(<<"margin", "T", "op">>, "number", {},
                <<"16">>),
       Editable(<<"margin", "B", "ottom">>, "number", {},
                <<"16">>)>>,
   template |->
     <<"<", "S", "ection", " ", "class", "N", "ame", "=", "\"", "{",
       "class", "N", "ame", "}", "\"", " ", "style", "=", "{", "{",
       "background", "C", "olor", ":", " ", "\"", "{", "background", "C",
       "olor", "}", "\"", ",", " ", "padding", ":", " ", "\"", "{",
       "padding", "}", "\"", ",", " ", "margin", "T", "op", ":", " ",
       "\"", "{", "margin", "T", "op", "}", "px", "\"", ",", " ",
       "margin", "B", "ottom", ":", " ", "\"", "{", "margin", "B",
       "ottom", "}", "px", "\"", "}", "}", ">", "{", "children", "}", "<",
       "/", "S", "ection", ">">>],

  [id |-> "container",
   defaultProps |->
     <<Prop(<<"class", "N", "ame">>, <<"bg", "-", "white", " ", "mx", "-", "auto", " ", "max", "-",
            "w", "-", "[", "600px", "]", " ", "p", "-", "[", "24px", "]">>),
       Prop(<<"children">>, <<>>)>>,
   editableProps |->
     <<Editable(<<"max", "W", "idth">>, "number", {},
                <<"600">>),
       Editable(<<"background", "C", "olor">>, "color", {},
                <<"#", "ffffff">>),
       Editable(<<"padding">>, "spacing", {},
                <<"24px">>),
       Editable(<<"border", "R", "adius">>, "number", {},
                <<"0">>)>>,
   template |->
     <<"<", "C", "ontainer", " ", "class", "N", "ame", "=", "\"", "{",
       "class", "N", "ame", "}", "\"", " ", "style", "=", "{", "{", "max",
       "W", "idth", ":", " ", "\"", "{", "max", "W", "idth", "}", "px",
       "\"", ",", " ", "background", "C", "olor", ":", " ", "\"", "{",
       "background", "C", "olor", "}", "\"", ",", " ", "padding", ":",
       " ", "\"", "{", "padding", "}", "\"", ",", " ", "border", "R",
       "adius", ":", " ", "\"", "{", "border", "R", "adius", "}", "px",
       "\"", "}", "}", ">", "{", "children", "}", "<", "/", "C",
       "ontainer", ">">>],

  [id |-> "row",
   defaultProps |->
     <<Prop(<<"class", "N", "ame">>, <<>>),
       Prop(<<"children">>, <<>>)>>,
   editableProps |->
     <<Editable(<<"gap">>, "number", {},
                <<"0">>),
       Editable(<<"align">>, "select", {<<"top">>, <<"middle">>, <<"bottom">>},
                <<"top">>)>>,
   template |->
     <<"<", "R", "ow", " ", "class", "N", "ame", "=", "\"", "{", "class",
       "N", "ame", "}", "\"", " ", "style", "=", "{", "{", "gap", ":",
       " ", "\"", "{", "gap", "}", "px", "\"", ",", " ", "vertical", "A",
       "lign", ":", " ", "\"", "{", "align", "}", "\"", "}", "}", ">",
       "{", "children", "}", "<", "/", "R", "ow", ">">>],

  [id |-> "column",
   defaultProps |->
     <<Prop(<<"class", "N", "ame">>, <<"w", "-", "[", "50", "%", "]">>),
       Prop(<<"children">>, <<>>)>>,
   editableProps |->
     <<Editable(<<"width">>, "number", {},
                <<"50">>),
       Editable(<<"padding">>, "spacing", {},
                <<"8px">>)>>,
   template |->
     <<"<", "C", "olumn", " ", "class", "N", "ame", "=", "\"", "{",
       "class", "N", "ame", "}", "\"", " ", "style", "=", "{", "{",
       "width", ":", " ", "\"", "{", "width", "}", "%", "\"", ",", " ",
       "padding", ":", " ", "\"", "{", "padding", "}", "\"", "}", "}",
       ">", "{", "children", "}", "<", "/", "C", "olumn", ">">>],

  [id |-> "hr",
   defaultProps |->
     <<Prop(<<"class", "N", "ame">>, <<"my", "-", "[", "16px", "]", " ", "border", "-", "gray", "-",
            "300">>)>>,
   editableProps |->
     <<Editable(<<"color">>, "color", {},
                <<"#", "d1d5db">>),
       Editable(<<"thickness">>, "number", {},
                <<"1">>),
       Editable(<<"margin", "T", "op">>, "number", {},
                <<"16">>),
       Editable(<<"margin", "B", "ottom">>, "number", {},
                <<"16">>)>>,
   template |->
     <<"<", "H", "r", " ", "class", "N", "ame", "=", "\"", "{", "class",
       "N", "ame", "}", "\"", " ", "style", "=", "{", "{", "border", "C",
       "olor", ":", " ", "\"", "{", "color", "}", "\"", ",", " ",
       "border", "W", "idth", ":", " ", "\"", "{", "thickness", "}", "px",
       "\"", ",", " ", "margin", "T", "op", ":", " ", "\"", "{", "margin",
       "T", "op", "}", "px", "\"", ",", " ", "margin", "B", "ottom", ":",
       " ", "\"", "{", "margin", "B", "ottom", "}", "px", "\"", "}", "}",
       " ", "/", ">">>]>>

\* The pre-built blocks.
TEMPLATE_BLOCKS ==
  <<[id |-> "hero_section",
   defaultProps |->
     <<Prop(<<"title">>, <<"W", "elcome", " ", "to", " ", "O", "ur", " ", "S", "ervice">>),
       Prop(<<"subtitle">>, <<"G", "et", " ", "started", " ", "with", " ", "our", " ",
            "amazing", " ", "features">>),
       Prop(<<"button", "T", "ext">>, <<"G", "et", " ", "S", "tarted">>),
       Prop(<<"button", "U", "rl">>, <<"https", ":", "/", "/", "example", ".", "com">>),
       Prop(<<"background", "C", "olor">>, <<"#", "f8fafc">>)>>,
   editableProps |->
     <<Editable(<<"title">>, "text", {},
                <<"W", "elcome", " ", "to", " ", "O", "ur", " ", "S", "ervice">>),
       Editable(<<"subtitle">>, "textarea", {},
                <<"G", "et", " ", "started", " ", "with", " ", "our", " ", "amazing", " ", "features">>),
       Editable(<<"button", "T", "ext">>, "text", {},
                <<"G", "et", " ", "S", "tarted">>),
       Editable(<<"button", "U", "rl">>, "url", {},
                <<"https", ":", "/", "/", "example", ".", "com">>),
       Editable(<<"background", "C", "olor">>, "color", {},
                <<"#", "f8fafc">>)>>,
   template |->
     <<"\n", "<", "S", "ection", " ", "style", "=", "{", "{",
       "background", "C", "olor", ":", " ", "\"", "{", "background", "C",
       "olor", "}", "\"", ",", " ", "padding", ":", " ", "\"", "48px",
       " ", "24px", "\"", ",", " ", "text", "A", "lign", ":", " ", "\"",
       "center", "\"", "}", "}", ">", "\n", " ", " ", "<", "H", "eading",
       " ", "as", "=", "\"", "h1", "\"", " ", "style", "=", "{", "{",
       "font", "S", "ize", ":", " ", "\"", "36px", "\"", ",", " ", "font",
       "W", "eight", ":", " ", "\"", "bold", "\"", ",", " ", "color", ":",
       " ", "\"", "#", "111827", "\"", ",", " ", "margin", "B", "ottom",
       ":", " ", "\"", "16px", "\"", "}", "}", ">", "\n", " ", " ", " ",
       " ", "{", "title", "}", "\n", " ", " ", "<", "/", "H", "eading",
       ">", "\n", " ", " ", "<", "T", "ext", " ", "style", "=", "{", "{",
       "font", "S", "ize", ":", " ", "\"", "18px", "\"", ",", " ",
       "color", ":", " ", "\"", "#", "6b7280", "\"", ",", " ", "margin",
       "B", "ottom", ":", " ", "\"", "32px", "\"", ",", " ", "max", "W",
       "idth", ":", " ", "\"", "500px", "\"", ",", " ", "margin", ":",
       " ", "\"", "0", " ", "auto", " ", "32px", "\"", "}", "}", ">",
       "\n", " ", " ", " ", " ", "{", "subtitle", "}", "\n", " ", " ",
       "<", "/", "T", "ext", ">", "\n", " ", " ", "<", "B", "utton", " ",
       "href", "=", "\"", "{", "button", "U", "rl", "}", "\"", " ",
       "style", "=", "{", "{", "background", "C", "olor", ":", " ", "\"",
       "#", "4f46e5", "\"", ",", " ", "color", ":", " ", "\"", "white",
       "\"", ",", " ", "padding", ":", " ", "\"", "16px", " ", "32px",
       "\"", ",", " ", "border", "R", "adius", ":", " ", "\"", "8px",
       "\"", ",", " ", "font", "S", "ize", ":", " ", "\"", "16px", "\"",
       ",", " ", "font", "W", "eight", ":", " ", "\"", "600", "\"", "}",
       "}", ">", "\n", " ", " ", " ", " ", "{", "button", "T", "ext", "}",
       "\n", " ", " ", "<", "/", "B", "utton", ">", "\n", "<", "/", "S",
       "ection", ">">>],

  [id |-> "pricing_card",
   defaultProps |->
     <<Prop(<<"title">>, <<"P", "remium", " ", "P", "lan">>),
       Prop(<<"price">>, <<"$", "29">>),
       Prop(<<"period">>, <<"/", "month">>),
       Prop(<<"features">>, <<"F", "eature", " ", "1", ",", "F", "eature", " ", "2", ",",
            "F", "eature", " ", "3">>),
       Prop(<<"button", "T", "ext">>, <<"C", "hoose", " ", "P", "lan">>),
       Prop(<<"button", "U", "rl">>, <<"https", ":", "/", "/", "example", ".", "com">>)>>,
   editableProps |->
     <<Editable(<<"title">>, "text", {},
                <<"P", "remium", " ", "P", "lan">>),
       Editable(<<"price">>, "text", {},
                <<"$", "29">>),
       Editable(<<"period">>, "text", {},
                <<"/", "month">>),
       Editable(<<"button", "T", "ext">>, "text", {},
                <<"C", "hoose", " ", "P", "lan">>),
       Editable(<<"button", "U", "rl">>, "url", {},
                <<"https", ":", "/", "/", "example", ".", "com">>)>>,
   template |->
     <<"\n", "<", "S", "ection", " ", "style", "=", "{", "{",
       "background", "C", "olor", ":", " ", "\"", "white", "\"", ",", " ",
       "border", ":", " ", "\"", "1px", " ", "solid", " ", "#", "e5e7eb",
       "\"", ",", " ", "border", "R", "adius", ":", " ", "\"", "12px",
       "\"", ",", " ", "padding", ":", " ", "\"", "28px", "\"", ",", " ",
       "margin", ":", " ", "\"", "16px", " ", "0", "\"", "}", "}", ">",
       "\n", " ", " ", "<", "T", "ext", " ", "style", "=", "{", "{",
       "color", ":", " ", "\"", "#", "4f46e5", "\"", ",", " ", "font",
       "S", "ize", ":", " ", "\"", "12px", "\"", ",", " ", "font", "W",
       "eight", ":", " ", "\"", "600", "\"", ",", " ", "text", "T",
       "ransform", ":", " ", "\"", "uppercase", "\"", ",", " ", "margin",
       "B", "ottom", ":", " ", "\"", "16px", "\"", "}", "}", ">", "\n",
       " ", " ", " ", " ", "{", "title", "}", "\n", " ", " ", "<", "/",
       "T", "ext", ">", "\n", " ", " ", "<", "T", "ext", " ", "style",
       "=", "{", "{", "font", "S", "ize", ":", " ", "\"", "30px", "\"",
       ",", " ", "font", "W", "eight", ":", " ", "\"", "bold", "\"", ",",
       " ", "color", ":", " ", "\"", "#", "111827", "\"", ",", " ",
       "margin", "B", "ottom", ":", " ", "\"", "12px", "\"", "}", "}",
       ">", "\n", " ", " ", " ", " ", "{", "price", "}", " ", "<", "span",
       " ", "style", "=", "{", "{", "font", "S", "ize", ":", " ", "\"",
       "16px", "\"", ",", " ", "font", "W", "eight", ":", " ", "\"",
       "normal", "\"", "}", "}", ">", "{", "period", "}", "<", "/",
       "span", ">", "\n", " ", " ", "<", "/", "T", "ext", ">", "\n", " ",
       " ", "<", "B", "utton", " ", "href", "=", "\"", "{", "button", "U",
       "rl", "}", "\"", " ", "style", "=", "{", "{", "background", "C",
       "olor", ":", " ", "\"", "#", "4f46e5", "\"", ",", " ", "color",
       ":", " ", "\"", "white", "\"", ",", " ", "padding", ":", " ", "\"",
       "14px", " ", "24px", "\"", ",", " ", "border", "R", "adius", ":",
       " ", "\"", "8px", "\"", ",", " ", "font", "S", "ize", ":", " ",
       "\"", "16px", "\"", ",", " ", "font", "W", "eight", ":", " ", "\"",
       "600", "\"", ",", " ", "width", ":", " ", "\"", "100", "%", "\"",
       ",", " ", "text", "A", "lign", ":", " ", "\"", "center", "\"", "}",
       "}", ">", "\n", " ", " ", " ", " ", "{", "button", "T", "ext", "}",
       "\n", " ", " ", "<", "/", "B", "utton", ">", "\n", "<", "/", "S",
       "ection", ">">>],

  [id |-> "product_showcase",
   defaultProps |->
     <<Prop(<<"title">>, <<"O", "ur", " ", "P", "roducts">>),
       Prop(<<"subtitle">>, <<"E", "legant", " ", "S", "tyle">>),
       Prop(<<"description">>, <<"W", "e", " ", "spent", " ", "two", " ", "years", " ", "in",
            " ", "development", " ", "to", " ", "bring", " ", "you", " ",
            "the", " ", "next", " ", "generation", " ", "of", " ", "our",
            " ", "award", "-", "winning", " ", "products", ".">>),
       Prop(<<"image1">>, <<"https", ":", "/", "/", "via", ".", "placeholder", ".",
            "com", "/", "300x200">>),
       Prop(<<"image2">>, <<"https", ":", "/", "/", "via", ".", "placeholder", ".",
            "com", "/", "300x200">>),
       Prop(<<"image3">>, <<"https", ":", "/", "/", "via", ".", "placeholder", ".",
            "com", "/", "300x200">>),
       Prop(<<"image4">>, <<"https", ":", "/", "/", "via", ".", "placeholder", ".",
            "com", "/", "300x200">>)>>,
   editableProps |->
     <<Editable(<<"title">>, "text", {},
                <<"O", "ur", " ", "P", "roducts">>),
       Editable(<<"subtitle">>, "text", {},
                <<"E", "legant", " ", "S", "tyle">>),
       Editable(<<"description">>, "textarea", {},
                <<"W", "e", " ", "spent", " ", "two", " ", "years", " ", "in", " ", "development", ".", ".", ".">>),
       Editable(<<"image1">>, "url", {},
                <<"https", ":", "/", "/", "via", ".", "placeholder", ".", "com", "/", "300x200">>),
       Editable(<<"image2">>, "url", {},
                <<"https", ":", "/", "/", "via", ".", "placeholder", ".", "com", "/", "300x200">>),
       Editable(<<"image3">>, "url", {},
                <<"https", ":", "/", "/", "via", ".", "placeholder", ".", "com", "/", "300x200">>),
       Editable(<<"image4">>, "url", {},
                <<"https", ":", "/", "/", "via", ".", "placeholder", ".", "com", "/", "300x200">>)>>,
   template |->
     <<"\n", "<", "S", "ection", " ", "style", "=", "{", "{", "margin",
       ":", " ", "\"", "32px", " ", "0", "\"", "}", "}", ">", "\n", " ",
       " ", "<", "T", "ext", " ", "style", "=", "{", "{", "color", ":",
       " ", "\"", "#", "4f46e5", "\"", ",", " ", "font", "S", "ize", ":",
       " ", "\"", "16px", "\"", ",", " ", "font", "W", "eight", ":", " ",
       "\"", "600", "\"", ",", " ", "margin", "B", "ottom", ":", " ",
       "\"", "8px", "\"", "}", "}", ">", "\n", " ", " ", " ", " ", "{",
       "title", "}", "\n", " ", " ", "<", "/", "T", "ext", ">", "\n", " ",
       " ", "<", "H", "eading", " ", "as", "=", "\"", "h2", "\"", " ",
       "style", "=", "{", "{", "font", "S", "ize", ":", " ", "\"", "24px",
       "\"", ",", " ", "font", "W", "eight", ":", " ", "\"", "600", "\"",
       ",", " ", "color", ":", " ", "\"", "#", "111827", "\"", ",", " ",
       "margin", "B", "ottom", ":", " ", "\"", "8px", "\"", "}", "}", ">",
       "\n", " ", " ", " ", " ", "{", "subtitle", "}", "\n", " ", " ",
       "<", "/", "H", "eading", ">", "\n", " ", " ", "<", "T", "ext", " ",
       "style", "=", "{", "{", "font", "S", "ize", ":", " ", "\"", "16px",
       "\"", ",", " ", "color", ":", " ", "\"", "#", "6b7280", "\"", ",",
       " ", "margin", "B", "ottom", ":", " ", "\"", "24px", "\"", "}",
       "}", ">", "\n", " ", " ", " ", " ", "{", "description", "}", "\n",
       " ", " ", "<", "/", "T", "ext", ">", "\n", " ", " ", "<", "R",
       "ow", ">", "\n", " ", " ", " ", " ", "<", "C", "olumn", " ",
       "style", "=", "{", "{", "width", ":", " ", "\"", "50", "%", "\"",
       ",", " ", "padding", "R", "ight", ":", " ", "\"", "8px", "\"", "}",
       "}", ">", "\n", " ", " ", " ", " ", " ", " ", "<", "I", "mg", " ",
       "src", "=", "\"", "{", "image1", "}", "\"", " ", "alt", "=", "\"",
       "P", "roduct", " ", "1", "\"", " ", "style", "=", "{", "{",
       "width", ":", " ", "\"", "100", "%", "\"", ",", " ", "border", "R",
       "adius", ":", " ", "\"", "12px", "\"", "}", "}", " ", "/", ">",
       "\n", " ", " ", " ", " ", "<", "/", "C", "olumn", ">", "\n", " ",
       " ", " ", " ", "<", "C", "olumn", " ", "style", "=", "{", "{",
       "width", ":", " ", "\"", "50", "%", "\"", ",", " ", "padding", "L",
       "eft", ":", " ", "\"", "8px", "\"", "}", "}", ">", "\n", " ", " ",
       " ", " ", " ", " ", "<", "I", "mg", " ", "src", "=", "\"", "{",
       "image2", "}", "\"", " ", "alt", "=", "\"", "P", "roduct", " ",
       "2", "\"", " ", "style", "=", "{", "{", "width", ":", " ", "\"",
       "100", "%", "\"", ",", " ", "border", "R", "adius", ":", " ", "\"",
       "12px", "\"", "}", "}", " ", "/", ">", "\n", " ", " ", " ", " ",
       "<", "/", "C", "olumn", ">", "\n", " ", " ", "<", "/", "R", "ow",
       ">", "\n", " ", " ", "<", "R", "ow", " ", "style", "=", "{", "{",
       "margin", "T", "op", ":", " ", "\"", "16px", "\"", "}", "}", ">",
       "\n", " ", " ", " ", " ", "<", "C", "olumn", " ", "style", "=",
       "{", "{", "width", ":", " ", "\"", "50", "%", "\"", ",", " ",
       "padding", "R", "ight", ":", " ", "\"", "8px", "\"", "}", "}", ">",
       "\n", " ", " ", " ", " ", " ", " ", "<", "I", "mg", " ", "src",
       "=", "\"", "{", "image3", "}", "\"", " ", "alt", "=", "\"", "P",
       "roduct", " ", "3", "\"", " ", "style", "=", "{", "{", "width",
       ":", " ", "\"", "100", "%", "\"", ",", " ", "border", "R", "adius",
       ":", " ", "\"", "12px", "\"", "}", "}", " ", "/", ">", "\n", " ",
       " ", " ", " ", "<", "/", "C", "olumn", ">", "\n", " ", " ", " ",
       " ", "<", "C", "olumn", " ", "style", "=", "{", "{", "width", ":",
       " ", "\"", "50", "%", "\"", ",", " ", "padding", "L", "eft", ":",
       " ", "\"", "8px", "\"", "}", "}", ">", "\n", " ", " ", " ", " ",
       " ", " ", "<", "I", "mg", " ", "src", "=", "\"", "{", "image4",
       "}", "\"", " ", "alt", "=", "\"", "P", "roduct", " ", "4", "\"",
       " ", "style", "=", "{", "{", "width", ":", " ", "\"", "100", "%",
       "\"", ",", " ", "border", "R", "adius", ":", " ", "\"", "12px",
       "\"", "}", "}", " ", "/", ">", "\n", " ", " ", " ", " ", "<", "/",
       "C", "olumn", ">", "\n", " ", " ", "<", "/", "R", "ow", ">", "\n",
       "<", "/", "S", "ection", ">">>]>>
ALL_COMPONENTS == EMAIL_COMPONENTS \o TEMPLATE_BLOCKS

CatalogIds == { ALL_COMPONENTS[k].id : k \in 1..Len(ALL_COMPONENTS) }

\* [...EMAIL_COMPONENTS, ...TEMPLATE_BLOCKS].find(c => c.id === type): the
\* entry in a sequence of one, or the empty sequence for undefined.
ComponentDef(type) ==
  IF type \in CatalogIds
  THEN <<ALL_COMPONENTS[CHOOSE k \in 1..Len(ALL_COMPONENTS) :
                          /\ ALL_COMPONENTS[k].id = type
                          /\ \A j \in 1..(k - 1) : ALL_COMPONENTS[j].id # type]>>
  ELSE <<>>

-----------------------------------------------------------------------------
(* generateEmailHTML: template substitution *)

\* The keys whose values go through mdInlineToHtml.
RichKeys ==
  { <<"children">>, <<"content">>, <<"title">>, <<"subtitle">>,
    <<"description">> }

\* The replacement string of String.prototype.replace with its patterns:
\* $$ is a dollar sign, $& the matched text, $ and a grave accent the text
\* before the match, $' the text after it; the code's patterns have no
\* group for $n.  The grave accent is the atom "(grave)".
RECURSIVE Expand(_, _, _, _)
Expand(rep, matched, before, after) ==
  IF rep = <<>> THEN <<>>
  ELSE IF Head(rep) = "$" /\ At(rep, 2) \in {"$", "&", "(grave)", "'"}
  THEN (CASE rep[2] = "$" -> <<"$">>
          [] rep[2] = "&" -> matched
          [] rep[2] = "(grave)" -> before
          [] rep[2] = "'" -> after)
       \o Expand(SubSeq(rep, 3, Len(rep)), matched, before, after)
  ELSE <<Head(rep)>> \o Expand(Tail(rep), matched, before, after)

\* htmlTemplate.replace(new RegExp(`{${key}}`, 'g'), processedValue), from
\* index i of the template on; pat is the key between braces.
RECURSIVE ReplaceKey(_, _, _, _)
ReplaceKey(t, pat, rep, i) ==
  LET js == { j \in i..Len(t) : t[j] = "{" /\ HasAt(t, j, pat) }
  IN  IF js = {} THEN SubSeq(t, i, Len(t))
      ELSE LET j == Least(js)
           IN  SubSeq(t, i, j - 1)
               \o Expand(rep, pat, SubSeq(t, 1, j - 1),
                         SubSeq(t, j + Len(pat), Len(t)))
               \o ReplaceKey(t, pat, rep, j + Len(pat))

\* Mutant: every value is inserted as it was typed.
ProcessedValueRaw(p) == p.value

\* processedValue of one entry of element.props.
ProcessedValue(p) ==
  IF p.key \in RichKeys THEN mdInlineToHtml(p.value) ELSE escapeHtml(p.value)

\* Object.entries(element.props).forEach(...): the entries in insertion
\* order, from entry k on.  Each replacement works on the value of the one
\* before, which the one-element set binds.
RECURSIVE Substitute(_, _, _)
Substitute(t, props, k) ==
  IF k > Len(props) THEN t
  ELSE CHOOSE result \in
         { Substitute(replaced, props, k + 1) :
             replaced \in { ReplaceKey(t, <<"{">> \o props[k].key \o <<"}">>,
                                       ProcessedValue(props[k]), 1) } } : TRUE

-----------------------------------------------------------------------------
(* generateEmailHTML: the pseudo-tags *)

UpperCase ==
  {"A", "B", "C", "D", "E", "F", "G", "H", "I", "J", "K", "L", "M",
   "N", "O", "P", "Q", "R", "S", "T", "U", "V", "W", "X", "Y", "Z"}

\* toLowerCase of one atom.
ToLower(a) ==
  CASE a = "A" -> "a"
    [] a = "B" -> "b"
    [] a = "C" -> "c"
    [] a = "D" -> "d"
    [] a = "E" -> "e"
    [] a = "F" -> "f"
    [] a = "G" -> "g"
    [] a = "H" -> "h"
    [] a = "I" -> "i"
    [] a = "J" -> "j"
    [] a = "K" -> "k"
    [] a = "L" -> "l"
    [] a = "M" -> "m"
    [] a = "N" -> "n"
    [] a = "O" -> "o"
    [] a = "P" -> "p"
    [] a = "Q" -> "q"
    [] a = "R" -> "r"
    [] a = "S" -> "s"
    [] a = "T" -> "t"
    [] a = "U" -> "u"
    [] a = "V" -> "v"
    [] a = "W" -> "w"
    [] a = "X" -> "x"
    [] a = "Y" -> "y"
    [] a = "Z" -> "z"
    [] OTHER -> a

\* s without the atoms of cls: s.replace(/[...]/g, '').
Remove(s, cls) == SelectSeq(s, LAMBDA a : a \notin cls)

\* key.replace(/([A-Z])/g, '-$1').toLowerCase()
RECURSIVE cssKey(_)
cssKey(key) ==
  IF key = <<>> THEN <<>>
  ELSE (IF Head(key) \in UpperCase THEN <<"-", ToLower(Head(key))>>
        ELSE <<ToLower(Head(key))>>) \o cssKey(Tail(key))

\* part.trim().replace(/['"]/g, '')
StylePart(part) == Remove(Trim(part), {"'", "\""})

\* One declaration: const [key, value] = s.split(':').map(...), then
\* `${cssKey}: ${value}`; a missing value prints as undefined.
Declaration(s) ==
  LET parts == Split(s, ":")
  IN  cssKey(StylePart(parts[1])) \o <<":", " ">>
      \o (IF Len(parts) >= 2 THEN StylePart(parts[2]) ELSE <<"undefined">>)

\* The styles of a style={...} notation.
Styles(styleObj) ==
  LET decls == Split(Remove(styleObj, {"{", "}"}), ",")
  IN  Join([k \in 1..Len(decls) |-> Declaration(decls[k])], <<";", " ">>)

NoMatch == [end |-> 0, caps |-> <<>>]

\* The greatest element of a non-empty set of indices.
Greatest(S) == CHOOSE p \in S : \A x \in S : x <= p

\* style=\{([^}]+)\}[^>]*> with `style` at index p: the index of the closing
\* `>` and the group, or no match.
StyleFrom(s, p) ==
  LET c == p + 3
      e == SkipNot(s, c, {"}"})
      z == SkipNot(s, e + 1, {">"})
  IN  IF HasAt(s, p, <<"style", "=", "{">>) /\ e > c /\ e <= Len(s)
         /\ z <= Len(s)
      THEN [end |-> z, caps |-> <<SubSeq(s, c, e - 1)>>]
      ELSE NoMatch

\* [^>]*style=\{([^}]+)\}[^>]*> from index a: the class is greedy, so the
\* last `style={` before the next `>` that lets the rest match is taken.
StyleAfter(s, a) ==
  LET g == SkipNot(s, a, {">"})
      ps == { p \in a..(g - 1) : StyleFrom(s, p).end > 0 }
  IN  IF ps = {} THEN NoMatch ELSE StyleFrom(s, Greatest(ps))

\* attr="([^"]*)" with the attribute name at index p: the index of the
\* closing quote, 0 for no match.
QuoteEnd(s, p, attr) ==
  LET h == SkipNot(s, p + 3, {"\""})
  IN  IF HasAt(s, p, <<attr, "=", "\"">>) /\ h <= Len(s) THEN h ELSE 0

\* /<Name[^>]*style=\{([^}]+)\}[^>]*>/ at index i.
MatchStyled(s, i, name) ==
  IF HasAt(s, i, <<"<">> \o name) THEN StyleAfter(s, i + 1 + Len(name))
  ELSE NoMatch

\* /<Name[^>]*>/ at index i.
MatchOpen(s, i, name) ==
  LET z == SkipNot(s, i + 1 + Len(name), {">"})
  IN  IF HasAt(s, i, <<"<">> \o name) /\ z <= Len(s)
      THEN [end |-> z, caps |-> <<>>]
      ELSE NoMatch

\* /<\/Name>/ at index i.
MatchClose(s, i, name) ==
  IF HasAt(s, i, <<"<", "/">> \o name \o <<">">>)
  THEN [end |-> i + 2 + Len(name), caps |-> <<>>]
  ELSE NoMatch

\* /<Name[^>]*attr="([^"]*)"[^>]*>/ at index i.
MatchAttr(s, i, name, attr) ==
  LET a == i + 1 + Len(name)
      g == SkipNot(s, a, {">"})
      ps == { p \in a..(g - 1) :
                /\ QuoteEnd(s, p, attr) > 0
                /\ SkipNot(s, QuoteEnd(s, p, attr) + 1, {">"}) <= Len(s) }
  IN  IF HasAt(s, i, <<"<">> \o name) /\ ps # {}
      THEN LET p == Greatest(ps)
               h == QuoteEnd(s, p, attr)
           IN  [end |-> SkipNot(s, h + 1, {">"}),
                caps |-> <<SubSeq(s, p + 3, h - 1)>>]
      ELSE NoMatch

\* /<Name[^>]*attr="([^"]*)"[^>]*style=\{([^}]+)\}[^>]*>/ at index i.
MatchAttrStyled(s, i, name, attr) ==
  LET a == i + 1 + Len(name)
      g == SkipNot(s, a, {">"})
      ps == { p \in a..(g - 1) :
                /\ QuoteEnd(s, p, attr) > 0
                /\ StyleAfter(s, QuoteEnd(s, p, attr) + 1).end > 0 }
  IN  IF HasAt(s, i, <<"<">> \o name) /\ ps # {}
      THEN LET p == Greatest(ps)
               h == QuoteEnd(s, p, attr)
               m == StyleAfter(s, h + 1)
           IN  [end |-> m.end,
                caps |-> <<SubSeq(s, p + 3, h - 1)>> \o m.caps]
      ELSE NoMatch

\* The chained .replace calls, in the order of the code.  `pre` and `post`
\* are the literal text of the replacement around what the match supplies.
Lowerings ==
  <<[kind |-> "styled", name |-> <<"H", "eading">>, attr |-> "",
     pre |-> <<"<", "h2", " ", "style", "=", "\"">>,
     post |-> <<"\"", ">">>],
    [kind |-> "open", name |-> <<"H", "eading">>, attr |-> "",
     pre |-> <<"<", "h2", " ", "style", "=", "\"", "margin", ":", " ", "16px",
               " ", "0", ";", " ", "font", "-", "size", ":", " ", "24px", ";",
               " ", "font", "-", "weight", ":", " ", "bold", ";", "\"", ">">>,
     post |-> <<>>],
    [kind |-> "close", name |-> <<"H", "eading">>, attr |-> "",
     pre |-> <<"<", "/", "h2", ">">>,
     post |-> <<>>],
    [kind |-> "styled", name |-> <<"T", "ext">>, attr |-> "",
     pre |-> <<"<", "p", " ", "style", "=", "\"">>,
     post |-> <<"\"", ">">>],
    [kind |-> "open", name |-> <<"T", "ext">>, attr |-> "",
     pre |-> <<"<", "p", " ", "style", "=", "\"", "margin", ":", " ", "8px",
               " ", "0", ";", " ", "line", "-", "height", ":", " ", "1", ".",
               "6", ";", "\"", ">">>,
     post |-> <<>>],
    [kind |-> "close", name |-> <<"T", "ext">>, attr |-> "",
     pre |-> <<"<", "/", "p", ">">>,
     post |-> <<>>],
    [kind |-> "attrStyled", name |-> <<"B", "utton">>, attr |-> "href",
     pre |-> <<"<", "a", " ", "href", "=", "\"">>,
     post |-> <<"\"", " ", "style", "=", "\"", "display", ":", " ", "inline",
               "-", "block", ";", " ", "text", "-", "decoration", ":", " ",
               "none", ";", " ">>],
    [kind |-> "attr", name |-> <<"B", "utton">>, attr |-> "href",
     pre |-> <<"<", "a", " ", "href", "=", "\"">>,
     post |-> <<"\"", " ", "style", "=", "\"", "display", ":", " ", "inline",
               "-", "block", ";", " ", "background", "-", "color", ":", " ",
               "#", "007bff", ";", " ", "color", ":", " ", "white", ";", " ",
               "padding", ":", " ", "12px", " ", "24px", ";", " ", "text", "-",
               "decoration", ":", " ", "none", ";", " ", "border", "-",
               "radius", ":", " ", "4px", ";", " ", "font", "-", "weight", ":",
               " ", "bold", ";", "\"", ">">>],
    [kind |-> "close", name |-> <<"B", "utton">>, attr |-> "",
     pre |-> <<"<", "/", "a", ">">>,
     post |-> <<>>],
    [kind |-> "open", name |-> <<"S", "ection">>, attr |-> "",
     pre |-> <<"<", "div", " ", "style", "=", "\"", "margin", ":", " ", "16px",
               " ", "0", ";", "\"", ">">>,
     post |-> <<>>],
    [kind |-> "close", name |-> <<"S", "ection">>, attr |-> "",
     pre |-> <<"<", "/", "div", ">">>,
     post |-> <<>>],
    [kind |-> "attr", name |-> <<"I", "mg">>, attr |-> "src",
     pre |-> <<"<", "img", " ", "src", "=", "\"">>,
     post |-> <<"\"", " ", "style", "=", "\"", "max", "-", "width", ":", " ",
               "100", "%", ";", " ", "height", ":", " ", "auto", ";", "\"", " ",
               "/", ">">>],
    [kind |-> "open", name |-> <<"H", "r">>, attr |-> "",
     pre |-> <<"<", "hr", " ", "style", "=", "\"", "border", ":", " ", "none",
               ";", " ", "border", "-", "top", ":", " ", "1px", " ", "solid",
               " ", "#", "ddd", ";", " ", "margin", ":", " ", "20px", " ", "0",
               ";", "\"", " ", "/", ">">>,
     post |-> <<>>],
    [kind |-> "open", name |-> <<"R", "ow">>, attr |-> "",
     pre |-> <<"<", "div", " ", "style", "=", "\"", "display", ":", " ",
               "table", ";", " ", "width", ":", " ", "100", "%", ";", "\"", ">">>,
     post |-> <<>>],
    [kind |-> "close", name |-> <<"R", "ow">>, attr |-> "",
     pre |-> <<"<", "/", "div", ">">>,
     post |-> <<>>],
    [kind |-> "open", name |-> <<"C", "olumn">>, attr |-> "",
     pre |-> <<"<", "div", " ", "style", "=", "\"", "display", ":", " ",
               "table", "-", "cell", ";", " ", "vertical", "-", "align", ":",
               " ", "top", ";", " ", "padding", ":", " ", "8px", ";", "\"", ">">>,
     post |-> <<>>],
    [kind |-> "close", name |-> <<"C", "olumn">>, attr |-> "",
     pre |-> <<"<", "/", "div", ">">>,
     post |-> <<>>]>>

\* The match of one pattern at index i.
MatchAt(s, i, rule) ==
  IF At(s, i) # "<" THEN NoMatch
  ELSE CASE rule.kind = "styled" -> MatchStyled(s, i, rule.name)
         [] rule.kind = "open" -> MatchOpen(s, i, rule.name)
         [] rule.kind = "close" -> MatchClose(s, i, rule.name)
         [] rule.kind = "attr" -> MatchAttr(s, i, rule.name, rule.attr)
         [] rule.kind = "attrStyled" ->
              MatchAttrStyled(s, i, rule.name, rule.attr)

\* What a match is replaced with.
Replacement(rule, m) ==
  CASE rule.kind = "styled" -> rule.pre \o Styles(m.caps[1]) \o rule.post
    [] rule.kind = "attr" -> rule.pre \o m.caps[1] \o rule.post
    [] rule.kind = "attrStyled" ->
         rule.pre \o m.caps[1] \o rule.post \o Styles(m.caps[2])
         \o <<"\"", ">">>
    [] OTHER -> rule.pre

\* One .replace(/.../g, ...) from index i on.
RECURSIVE LowerFrom(_, _, _)
LowerFrom(s, i, rule) ==
  LET js == { j \in i..Len(s) : MatchAt(s, j, rule).end > 0 }
  IN  IF js = {} THEN SubSeq(s, i, Len(s))
      ELSE LET j == Least(js)
               m == MatchAt(s, j, rule)
           IN  SubSeq(s, i, j - 1) \o Replacement(rule, m)
               \o LowerFrom(s, m.end + 1, rule)

\* The chain from its k-th call on.
RECURSIVE Lower(_, _)
Lower(s, k) ==
  IF k > Len(Lowerings) THEN s
  ELSE CHOOSE result \in
         { Lower(lowered, k + 1) :
             lowered \in { LowerFrom(s, 1, Lowerings[k]) } } : TRUE

\* The HTML of one element: '' for a type that is not in the catalog.
ElementHTML(element) ==
  LET componentDef == ComponentDef(element.type)
  IN  IF componentDef = <<>> THEN <<>>
      ELSE CHOOSE result \in
             { Lower(htmlTemplate, 1) :
                 htmlTemplate \in { Substitute(componentDef[1].template,
                                               element.props, 1) } } : TRUE

\* The elements' HTML joined last to first.
componentsHTMLReversed(els) ==
  Join([k \in 1..Len(els) |-> ElementHTML(els[Len(els) + 1 - k])], <<"\n">>)

\* componentsHTML: elements.map(...).join('\n')
componentsHTML(els) ==
  Join([k \in 1..Len(els) |-> ElementHTML(els[k])], <<"\n">>)

\* fullHTML up to ${componentsHTML}.
DocumentHead ==
  <<"<", "!", "D", "O", "C", "T", "Y", "P", "E", " ", "html", ">", "\n",
    "<", "html", ">", "\n", "<", "head", ">", "\n", " ", " ", "<", "meta",
    " ", "charset", "=", "\"", "utf", "-", "8", "\"", ">", "\n", " ", " ",
    "<", "meta", " ", "name", "=", "\"", "viewport", "\"", " ", "content",
    "=", "\"", "width", "=", "device", "-", "width", ",", " ", "initial",
    "-", "scale", "=", "1", "\"", ">", "\n", " ", " ", "<", "title", ">",
    "Y", "our", " ", "C", "ustom", " ", "E", "mail", "<", "/", "title",
    ">", "\n", " ", " ", "<", "style", ">", "\n", " ", " ", " ", " ",
    "body", " ", "{", " ", "\n", " ", " ", " ", " ", " ", " ", "margin",
    ":", " ", "0", ";", " ", "\n", " ", " ", " ", " ", " ", " ", "padding",
    ":", " ", "0", ";", " ", "\n", " ", " ", " ", " ", " ", " ",
    "background", "-", "color", ":", " ", "#", "ffffff", ";", " ", "\n",
    " ", " ", " ", " ", " ", " ", "font", "-", "family", ":", " ", "A",
    "rial", ",", " ", "sans", "-", "serif", ";", " ", "\n", " ", " ", " ",
    " ", " ", " ", "line", "-", "height", ":", " ", "1", ".", "6", ";",
    "\n", " ", " ", " ", " ", "}", "\n", " ", " ", " ", " ", ".",
    "container", " ", "{", " ", "\n", " ", " ", " ", " ", " ", " ", "max",
    "-", "width", ":", " ", "600px", ";", " ", "\n", " ", " ", " ", " ",
    " ", " ", "margin", ":", " ", "0", " ", "auto", ";", " ", "\n", " ",
    " ", " ", " ", " ", " ", "padding", ":", " ", "20px", ";", " ", "\n",
    " ", " ", " ", " ", "}", "\n", " ", " ", " ", " ", "a", " ", "{", " ",
    "\n", " ", " ", " ", " ", " ", " ", "color", ":", " ", "#", "007bff",
    ";", " ", "\n", " ", " ", " ", " ", "}", "\n", " ", " ", " ", " ",
    "img", " ", "{", " ", "\n", " ", " ", " ", " ", " ", " ", "max", "-",
    "width", ":", " ", "100", "%", ";", " ", "\n", " ", " ", " ", " ", " ",
    " ", "height", ":", " ", "auto", ";", " ", "\n", " ", " ", " ", " ",
    "}", "\n", " ", " ", "<", "/", "style", ">", "\n", "<", "/", "head",
    ">", "\n", "<", "body", ">", "\n", " ", " ", "<", "div", " ", "class",
    "=", "\"", "container", "\"", ">", "\n", " ", " ", " ", " ">>

\* fullHTML after ${componentsHTML}.
DocumentTail ==
  <<"\n", " ", " ", "<", "/", "div", ">", "\n", "<", "/", "body", ">",
    "\n", "<", "/", "html", ">">>

\* fullHTML, the argument of onEmailChange.
generateEmailHTML(els) == DocumentHead \o componentsHTML(els) \o DocumentTail

-----------------------------------------------------------------------------
(* EmailElementRenderer: renderElement *)

\* The types renderElement's switch has a case for.
RenderCases ==
  {"heading", "text", "button", "image", "hr", "hero_section",
   "pricing_card"}

\* What the canvas shows for an element: the case that rendered it, or the
\* default case's <div>Unknown component: {type}</div>.
renderElement(element) ==
  IF element.type \in RenderCases
  THEN [case |-> element.type, text |-> ""]
  ELSE [case |-> "default",
        text |-> "Unknown component: " \o element.type]

-----------------------------------------------------------------------------
(* The visual builder: the canvas, the property editor and the export *)

\* Number of elements the canvas holds at most.
MaxElements == 2

\* Number of drops, edits and deletions in one behaviour.
MaxSteps == 2

\* The catalog entries the palette offers for dragging.
Palette == { ALL_COMPONENTS[k] : k \in 1..Len(ALL_COMPONENTS) }

\* A drag payload that did not come from the palette: an id the catalog does
\* not have.
ForeignComponent ==
  [id |-> "spacer",
   defaultProps |-> <<Prop(<<"height">>, <<"16">>)>>,
   editableProps |-> <<>>,
   template |-> <<>>]

\* What is typed into a text, a rich-text or a url input.
TypedValues == { <<"<", "b", ">", "&", "\"", "'">>, <<"$", "&">> }

\* What is typed into a spacing input.
SpacingValues == { <<"12px", ",", "24px">> }

\* What the colour picker hands over: color.hex.
ColorValues == { <<"#", "ffffff">> }

\* What a number input hands over: String(Number(e.target.value)).
NumberValues == { <<"20">> }

\* The values the input of one editableProps entry can hand to
\* handlePropertyChange.
InputValues(prop) ==
  CASE prop.type \in {"text", "textarea", "url"} -> TypedValues
    [] prop.type = "spacing" -> SpacingValues
    [] prop.type = "color" -> ColorValues
    [] prop.type = "number" -> NumberValues
    [] prop.type = "select" -> prop.options
    [] OTHER -> {}

\* Whether a props object has the key.
HasKey(props, key) == \E k \in 1..Len(props) : props[k].key = key

\* props[key]
Get(props, key) ==
  props[CHOOSE k \in 1..Len(props) : props[k].key = key].value

\* { ...props, [propertyName]: value }: an own key keeps its place, a new
\* one goes last.
SetProp(props, propertyName, value) ==
  IF HasKey(props, propertyName)
  THEN [k \in 1..Len(props) |->
          IF props[k].key = propertyName THEN Prop(propertyName, value)
          ELSE props[k]]
  ELSE Append(props, Prop(propertyName, value))

\* newElement of handleDrop; children is '' or undefined as <<>>.  The id
\* is the component's id, the time stamp and the random suffix, which the
\* serial stands for.
NewElement(componentData, serial) ==
  [id |-> componentData.id \o "_" \o ToString(serial),
   type |-> componentData.id,
   props |-> componentData.defaultProps,
   children |->
     IF HasKey(componentData.defaultProps, <<"children">>)
     THEN Get(componentData.defaultProps, <<"children">>)
     ELSE <<>>]

\* An element after the property editor set the editableProps entries from
\* the k-th on to the defaults it shows.
RECURSIVE SetDefaults(_, _, _)
SetDefaults(element, editableProps, k) ==
  IF k > Len(editableProps) THEN element
  ELSE SetDefaults(
         [element EXCEPT !.props =
            SetProp(element.props, editableProps[k].name,
                    editableProps[k].default)],
         editableProps, k + 1)

\* A dropped element whose properties were all set to the shown defaults.
Shown(componentData) ==
  SetDefaults(NewElement(componentData, 0), componentData.editableProps, 1)

\* What the canvas shows for the placed elements.
Canvas(els) == [k \in 1..Len(els) |-> renderElement(els[k])]

\* One entry of the history of the builder: the operation and the id of the
\* element it was asked for.
Step(op, id) == [op |-> op, id |-> id]

\* handleElementsChange and handleUpdateElement: the new elements are stored
\* and the HTML is generated again.
ElementsChange(newElements) ==
  /\ elements' = newElements
  /\ html' = generateEmailHTML(newElements)
  /\ canvas' = Canvas(newElements)

\* handleDrop with a payload that carries defaultProps.
Drop(componentData) ==
  /\ Len(steps) < MaxSteps
  /\ Len(elements) < MaxElements
  /\ steps' = Append(steps, Step("drop", NoVal))
  /\ ElementsChange(Append(elements,
                            NewElement(componentData, Len(steps) + 1)))
  /\ UNCHANGED <<sendVars, tplVars, raw, converted, context>>

\* handleDrop with a payload that is not JSON or has no defaultProps: the
\* exception is caught and logged.
DropFailed ==
  /\ Len(steps) < MaxSteps
  /\ steps' = Append(steps, Step("drop failed", NoVal))
  /\ UNCHANGED <<sendVars, tplVars, raw, converted, context, elements, html,
                 canvas>>

\* handlePropertyChange then handleUpdateElement: the property editor of the
\* i-th element changes one editable property.
UpdateElement(i, prop, value) ==
  /\ Len(steps) < MaxSteps
  /\ steps' = Append(steps, Step("edit", elements[i].id))
  /\ ElementsChange([elements EXCEPT ![i].props =
                       SetProp(elements[i].props, prop.name, value)])
  /\ UNCHANGED <<sendVars, tplVars, raw, converted, context>>

\* handleDeleteElement of the i-th element: filterElements maps over the
\* elements that stay and calls itself on a truthy children, which for a
\* string throws before onElementsChange is reached.
DeleteElement(i) ==
  /\ Len(steps) < MaxSteps
  /\ steps' = Append(steps, Step("delete", elements[i].id))
  /\ IF \E j \in 1..Len(elements) : j # i /\ elements[j].children # <<>>
     THEN UNCHANGED <<elements, html, canvas>>
     ELSE ElementsChange([k \in 1..(Len(elements) - 1) |->
                            IF k < i THEN elements[k] ELSE elements[k + 1]])
  /\ UNCHANGED <<sendVars, tplVars, raw, converted, context>>

\* The canvases a behaviour starts from: the empty one, or one button as the
\* property editor shows it.
StartCanvases == { <<>>, <<Shown(ComponentDef("button")[1])>> }

InitBuilder ==
  /\ SendIdle
  /\ TplIdle
  /\ custom_templates = <<>>
  /\ phase = "none"
  /\ raw = <<>>
  /\ converted = <<>>
  /\ context = "none"
  /\ elements \in StartCanvases
  /\ html = generateEmailHTML(elements)
  /\ canvas = Canvas(elements)
  /\ steps = <<>>

NextBuilder ==
  \/ \E c \in Palette \cup {ForeignComponent} : Drop(c)
  \/ DropFailed
  \/ \E i \in 1..Len(elements) :
       \E d \in { c \in Palette : c.id = elements[i].type } :
         \E k \in 1..Len(d.editableProps) :
           \E value \in InputValues(d.editableProps[k]) :
             UpdateElement(i, d.editableProps[k], value)
  \/ \E i \in 1..Len(elements) : DeleteElement(i)

SpecBuilder == InitBuilder /\ [][NextBuilder]_vars

-----------------------------------------------------------------------------
(* The text conversions applied to bounded inputs *)

\* All strings of at most n atoms of the alphabet.
Strings(alphabet, n) == UNION { [1..k -> alphabet] : k \in 0..n }

\* Length of a line text with emphasis markers.
MaxMarked == 6

\* Length of a line text with the characters escapeHtml replaces.
MaxEscaped == 3

\* Hashes at the start of a heading line.
MaxHashes == 7

\* Lines of a text.
MaxLines == 3

Markers == {"*", "_"}

InlineInputs ==
  Strings({"a", " "} \cup Markers, MaxMarked)
  \cup Strings({"a", "<", ">", "&", "\"", "'", "*", "$"}, MaxEscaped)

HeadingLine(k, sep, title) == [i \in 1..k |-> "#"] \o sep \o title

HeadingInputs ==
  { HeadingLine(k, sep, <<"a">>) : k \in 1..MaxHashes, sep \in {<<>>, <<" ">>} }

LineInputs ==
  { <<>>, <<"a">>, <<"-", " ", "a">>, <<"*", " ", "b">>, <<" ", "-", " ", "a">>,
    <<"1", ".", " ", "a">>, <<"2", "0", ".", " ", "b">>, <<"#", " ", "a">> }

TextInputs ==
  HeadingInputs
  \cup { Join(ls, <<"\n">>) : ls \in UNION { [1..n -> LineInputs] : n \in 1..MaxLines } }

\* toInline of the canvas applied to the text.
InlineCanvas ==
  /\ context = "none"
  /\ converted' = toInlineCanvas(raw)
  /\ context' = "canvas"
  /\ UNCHANGED <<raw, elements, html, canvas, steps>>
  /\ UNCHANGED <<sendVars, tplVars>>

\* toInline of the export applied to the text.
InlineExport ==
  /\ context = "none"
  /\ converted' = toInline(raw)
  /\ context' = "export"
  /\ UNCHANGED <<raw, elements, html, canvas, steps>>
  /\ UNCHANGED <<sendVars, tplVars>>

InitInline ==
  /\ SendIdle
  /\ TplIdle
  /\ custom_templates = <<>>
  /\ phase = "none"
  /\ raw \in InlineInputs
  /\ converted = <<>>
  /\ context = "none"
  /\ elements = <<>>
  /\ html = <<>>
  /\ canvas = <<>>
  /\ steps = <<>>

NextInline ==
  \/ InlineCanvas
  \/ InlineExport

SpecInline == InitInline /\ [][NextInline]_vars

\* mdInlineToHtml of the canvas applied to the text.
ConvertCanvas ==
  /\ context = "none"
  /\ converted' = mdInlineToHtmlCanvas(raw)
  /\ context' = "canvas"
  /\ UNCHANGED <<raw, elements, html, canvas, steps>>
  /\ UNCHANGED <<sendVars, tplVars>>

\* mdInlineToHtml of the export applied to the text.
ConvertExport ==
  /\ context = "none"
  /\ converted' = mdInlineToHtml(raw)
  /\ context' = "export"
  /\ UNCHANGED <<raw, elements, html, canvas, steps>>
  /\ UNCHANGED <<sendVars, tplVars>>

InitText ==
  /\ SendIdle
  /\ TplIdle
  /\ custom_templates = <<>>
  /\ phase = "none"
  /\ raw \in TextInputs
  /\ converted = <<>>
  /\ context = "none"
  /\ elements = <<>>
  /\ html = <<>>
  /\ canvas = <<>>
  /\ steps = <<>>

NextText ==
  \/ ConvertCanvas
  \/ ConvertExport

SpecText == InitText /\ [][NextText]_vars

-----------------------------------------------------------------------------
(* Properties of the text conversions *)

Converted == context # "none"

\* The text is one line of k hashes, white space and a title.
IsHeadingLine(k) == raw = HeadingLine(k, <<" ">>, <<"a">>)

\* The font-size declaration of depth k, as the heading wrappers write it.
FontSize(k) == <<"size", ":", ToString(sizes[Min(k, 6)]) \o "px", ";">>

\* C15: a line of k hashes, white space and text is converted, in the
\* canvas and in the export, to a heading whose font size is 32, 28, 24, 20,
\* 18, 16 px for k = 1..6, and for k = 7 to a heading of the depth-6 size.
C15_HeadingDepth ==
  \A k \in 1..MaxHashes :
    (Converted /\ IsHeadingLine(k)) =>
      /\ Count(converted, FontSize(k)) = 1
      /\ Count(converted, <<"#">>) = 0

\* The depths C15 holds for: k = 1..6.
C15_HeadingDepthToSix ==
  \A k \in 1..6 :
    (Converted /\ IsHeadingLine(k)) =>
      /\ Count(converted, FontSize(k)) = 1
      /\ Count(converted, <<"#">>) = 0

\* The lines of the text, each without the white space around it.
Lines == [k \in 1..Len(Split(raw, "\n")) |-> Trim(Split(raw, "\n")[k])]

\* `- x` or `* x`
IsBulletLine(line) ==
  Len(line) >= 3 /\ line[1] \in {"-", "*"} /\ line[2] = " "

\* `<digits>. x`
IsOrderedLine(line) ==
  \E d \in 1..Len(line) :
    /\ \A i \in 1..d : IsDigit(line[i])
    /\ At(line, d + 1) = "." /\ At(line, d + 2) = " " /\ Len(line) >= d + 3

\* Maximal runs of consecutive lines that satisfy Is.
Runs(Is(_)) ==
  Cardinality({ k \in 1..Len(Lines) :
                  Is(Lines[k]) /\ (k = 1 \/ ~Is(Lines[k - 1])) })

Items == Cardinality({ k \in 1..Len(Lines) :
                         IsBulletLine(Lines[k]) \/ IsOrderedLine(Lines[k]) })

Grouped ==
  /\ Count(converted, <<"<", "ul", " ">>) = Runs(IsBulletLine)
  /\ Count(converted, Close("ul")) = Runs(IsBulletLine)
  /\ Count(converted, <<"<", "ol", " ">>) = Runs(IsOrderedLine)
  /\ Count(converted, Close("ol")) = Runs(IsOrderedLine)
  /\ Count(converted, Open("li")) = Items
  /\ Count(converted, Close("li")) = Items

\* C16: in the converted text, of the canvas and of the export, every run of
\* consecutive unordered-list lines is one <ul> block and every run of
\* consecutive ordered-list lines is one <ol> block, with one <li> per line.
C16_ListGrouping == Converted => Grouped

\* The context C16 holds in: the canvas.
C16_ListGroupingCanvas == context = "canvas" => Grouped

Plain(s, a, b) == \A k \in a..b : s[k] \notin Markers

\* The text is plain text, then text between the marker m written `width`
\* times on either side (from index i to index j), then plain text.
Marked(s, m, width, i, j) ==
  /\ 1 <= i /\ i + width < j /\ j + width - 1 <= Len(s)
  /\ \A d \in 0..(width - 1) : s[i + d] = m /\ s[j + d] = m
  /\ Plain(s, 1, i - 1)
  /\ Plain(s, i + width, j - 1)
  /\ Plain(s, j + width, Len(s))

Wrapped(s, tag, width, i, j) ==
  escapeHtml(SubSeq(s, 1, i - 1))
  \o Open(tag) \o escapeHtml(SubSeq(s, i + width, j - 1)) \o Close(tag)
  \o escapeHtml(SubSeq(s, j + width, Len(s)))

\* C17: for text without nested markers, `**text**` and `__text__` become
\* one <strong> element around the text and no <em>, a single `*text*` and
\* `_text_` become one <em> element, and the toInline of the canvas and the
\* toInline of the export give the same result for every text.
C17_BoldBeforeItalic ==
  Converted =>
    /\ converted = toInline(raw)
    /\ converted = toInlineCanvas(raw)
    /\ \A m \in Markers, i \in 1..Len(raw), j \in 1..Len(raw) :
         /\ Marked(raw, m, 2, i, j) => converted = Wrapped(raw, "strong", 2, i, j)
         /\ Marked(raw, m, 1, i, j) => converted = Wrapped(raw, "em", 1, i, j)

\* The export's toInline has made the `__a__` of `a__a__` bold.
C17_Witness ==
  /\ context = "export"
  /\ raw = <<"a", "_", "_", "a", "_", "_">>
  /\ converted = <<"a">> \o Open("strong") \o <<"a">> \o Close("strong")


-----------------------------------------------------------------------------
(* Properties of the builder's export and canvas *)

\* The characters escapeHtml replaces.
Specials == {"<", ">", "&", "\"", "'"}

\* A value with a letter in the place of each of those characters.
Neutral(value) ==
  [k \in 1..Len(value) |-> IF value[k] \in Specials THEN "x" ELSE value[k]]

\* The elements with every property value made neutral.
NeutralElements(els) ==
  [i \in 1..Len(els) |->
     [els[i] EXCEPT !.props =
        [k \in 1..Len(els[i].props) |->
           Prop(els[i].props[k].key, Neutral(els[i].props[k].value))]]]

\* The entities escapeHtml writes.
Entities ==
  { <<"&", "amp", ";">>, <<"&", "lt", ";">>, <<"&", "gt", ";">>,
    <<"&", "quot", ";">>, <<"&", "#", "39", ";">> }

\* How often each of the characters stands unescaped in a document; an
\* ampersand that opens an entity is escaped.
Unescaped(doc) ==
  [c \in Specials |->
     Cardinality({ i \in 1..Len(doc) :
                     /\ doc[i] = c
                     /\ c = "&" => \A e \in Entities : ~HasAt(doc, i, e) })]

\* Whether a value holds one of the characters.
HasSpecial(value) == \E k \in 1..Len(value) : value[k] \in Specials

\* C12: the characters < > & " ' of the property values never stand
\* unescaped in the generated HTML: the document has exactly the unescaped
\* occurrences that the generator's own markup gives it, which are those of
\* the same elements with a letter in the place of each such character.  It
\* holds for the rich-text keys and for all others.
C12_ValuesEscaped ==
  Unescaped(html) = Unescaped(generateEmailHTML(NeutralElements(elements)))

\* A placed element holds such characters in a rich-text property and in
\* another one, both edited in, and the document carries their entities.
C12_Witness ==
  /\ \E i \in 1..Len(elements) :
       /\ \E k \in 1..Len(elements[i].props) :
            /\ elements[i].props[k].key \in RichKeys
            /\ elements[i].props[k].value \in TypedValues
            /\ HasSpecial(elements[i].props[k].value)
       /\ \E k \in 1..Len(elements[i].props) :
            /\ elements[i].props[k].key \notin RichKeys
            /\ elements[i].props[k].value \in TypedValues
            /\ HasSpecial(elements[i].props[k].value)
  /\ Count(html, <<"&", "lt", ";">>) >= 2
  /\ Count(html, <<"&", "#", "39", ";">>) >= 2


\* The catalog's defaults of an entry: its defaultProps, then the default of
\* each editableProps entry.
CatalogDefaults(d) ==
  d.defaultProps
  \o [k \in 1..Len(d.editableProps) |->
        Prop(d.editableProps[k].name, d.editableProps[k].default)]

\* props with the defaults from the k-th on added for the keys it lacks.
RECURSIVE WithDefaults(_, _, _)
WithDefaults(props, defaults, k) ==
  IF k > Len(defaults) THEN props
  ELSE CHOOSE result \in
         { WithDefaults(filled, defaults, k + 1) :
             filled \in { IF HasKey(props, defaults[k].key) THEN props
                          ELSE Append(props, defaults[k]) } } : TRUE

\* An element with its effective property set: the explicit value of a key
\* when it has one, the catalog default otherwise.
Effective(element) ==
  IF ComponentDef(element.type) = <<>> THEN element
  ELSE [element EXCEPT !.props =
          WithDefaults(element.props,
                       CatalogDefaults(ComponentDef(element.type)[1]), 1)]

\* C13: the document is the one the effective property sets give: every
\* placed element, edited or not, is generated with the explicit value of
\* each key that has one and with the catalog default of each other key.
C13_EffectivePropsSubstituted ==
  html = generateEmailHTML([i \in 1..Len(elements) |-> Effective(elements[i])])

\* The same for the elements that hold every key of their catalog entry:
\* their explicit values are the ones generated.
C13_ExplicitPropsSubstituted ==
  \A i \in 1..Len(elements) :
    Effective(elements[i]) = elements[i]
      => \A k \in 1..Len(elements[i].props) :
           Count(html, <<"{">> \o elements[i].props[k].key \o <<"}">>) > 0
             => elements[i].props[k].value = <<"$", "&">>


\* The placeholder of a key.
Placeholder(key) == <<"{">> \o key \o <<"}">>

\* The keys whose placeholder stands in the template of a catalog entry and
\* that the props lack: the unresolved placeholders of an element.
Unresolved(d, props) ==
  { key \in { CatalogDefaults(d)[k].key : k \in 1..Len(CatalogDefaults(d)) } :
      /\ Count(d.template, Placeholder(key)) > 0
      /\ ~HasKey(props, key) }

\* C14: a placeholder whose key the element's props lack is left in the
\* generated HTML as the literal text {key}, as often as the template has
\* it: neither the substitution nor the lowering drops or alters it.
C14_UnresolvedLeftLiteral ==
  \A i \in 1..Len(elements) :
    \A d \in { c \in Palette : c.id = elements[i].type } :
      \A key \in Unresolved(d, elements[i].props) :
        Count(ElementHTML(elements[i]), Placeholder(key))
          = Count(d.template, Placeholder(key))

\* The same before the lowering: the substitution alone leaves every
\* unresolved placeholder where it is.
C14_SubstitutionLeavesPlaceholders ==
  \A i \in 1..Len(elements) :
    \A d \in { c \in Palette : c.id = elements[i].type } :
      \A key \in Unresolved(d, elements[i].props) :
        Count(Substitute(d.template, elements[i].props, 1), Placeholder(key))
          = Count(d.template, Placeholder(key))


\* The pseudo-tags the lowering flattens the style notation of, and those it
\* replaces as a whole.
FlattenedTags == { <<"H", "eading">>, <<"T", "ext">>, <<"B", "utton">> }

ReplacedTags ==
  { <<"S", "ection">>, <<"I", "mg">>, <<"H", "r">>, <<"R", "ow">>,
    <<"C", "olumn">> }

\* The declarations, in CSS form, of the style notations that the opening
\* tags of the given names carry in a substituted template.
Declared(t, names) ==
  UNION { { Declaration(Split(Remove(MatchStyled(t, i, name).caps[1],
                                     {"{", "}"}), ",")[n]) :
              n \in 1..Len(Split(Remove(MatchStyled(t, i, name).caps[1],
                                        {"{", "}"}), ",")) } :
          <<i, name>> \in { <<j, tag>> \in (1..Len(t)) \X names :
                              MatchStyled(t, j, tag).end > 0 } }

\* Whether the generated HTML of the i-th element has every declaration of
\* the style notations of its tags of the given names.
Flattened(i, names) ==
  \A d \in { c \in Palette : c.id = elements[i].type } :
    \A decl \in Declared(Substitute(d.template, elements[i].props, 1), names) :
      Count(ElementHTML(elements[i]), decl) > 0

\* C18: every pseudo-tag Heading, Text, Button, Section, Img, Hr, Row,
\* Column that carries a style notation is lowered with every declared
\* key: value pair of the notation in the generated HTML, the key in
\* kebab-case.
C18_DeclaredStylesKept ==
  \A i \in 1..Len(elements) : Flattened(i, FlattenedTags \cup ReplacedTags)

\* The same for Heading, Text and Button alone.
C18_HeadingTextButtonStylesKept ==
  \A i \in 1..Len(elements) : Flattened(i, FlattenedTags)


\* The declarations without a colon of the style notations that the opening
\* tags of the given names carry in a substituted template, as written.
Malformed(t, names) ==
  UNION { { part \in { Split(Remove(MatchStyled(t, i, name).caps[1],
                                    {"{", "}"}), ",")[n] :
                         n \in 1..Len(Split(Remove(
                                MatchStyled(t, i, name).caps[1],
                                {"{", "}"}), ",")) } :
              Len(Split(part, ":")) < 2 } :
          <<i, name>> \in { <<j, tag>> \in (1..Len(t)) \X names :
                              MatchStyled(t, j, tag).end > 0 } }

\* C19: a declaration of a style notation that has no colon to split at is
\* skipped: nothing of it is emitted into the style attribute.
C19_MalformedDeclarationSkipped ==
  \A i \in 1..Len(elements) :
    \A d \in { c \in Palette : c.id = elements[i].type } :
      \A part \in Malformed(Substitute(d.template, elements[i].props, 1),
                            FlattenedTags) :
        Count(ElementHTML(elements[i]), Declaration(part)) = 0

\* With such a declaration in it the document is still generated, and the
\* declarations with a colon are all emitted.
C19_RenderCompletes ==
  \A i \in 1..Len(elements) :
    \A d \in { c \in Palette : c.id = elements[i].type } :
      Malformed(Substitute(d.template, elements[i].props, 1),
                FlattenedTags) # {}
        => /\ ElementHTML(elements[i]) # <<>>
           /\ Flattened(i, FlattenedTags)


\* What the canvas shows for an element that no case of renderElement takes.
UnknownComponent(type) == "Unknown component: " \o type

\* C20: an element whose type is no catalog id is shown as the placeholder
\* "Unknown component", on the canvas and in the generated HTML, and an
\* element whose type is a catalog id is rendered as its component and never
\* as the placeholder.
C20_UnknownIffNotInCatalog ==
  \A i \in 1..Len(elements) :
    IF elements[i].type \in CatalogIds
    THEN /\ canvas[i].case = elements[i].type
         /\ ElementHTML(elements[i]) # <<>>
    ELSE /\ canvas[i].text = UnknownComponent(elements[i].type)
         /\ Count(ElementHTML(elements[i]),
                  <<"U", "nknown", " ", "component">>) > 0

\* The canvas half for the types renderElement has a case for, and for the
\* types outside the catalog.
C20_CanvasCases ==
  \A i \in 1..Len(elements) :
    /\ elements[i].type \in RenderCases => canvas[i].case = elements[i].type
    /\ elements[i].type \notin CatalogIds
         => canvas[i].text = UnknownComponent(elements[i].type)

\* The generated HTML of an element outside the catalog is empty.
C20_ForeignElementGeneratesNothing ==
  \A i \in 1..Len(elements) :
    elements[i].type \notin CatalogIds => ElementHTML(elements[i]) = <<>>

-----------------------------------------------------------------------------
(* Properties of the document assembly and of the canvas operations *)

\* The lowered HTML of the placed elements, one by one.
Parts == [k \in 1..Len(elements) |-> ElementHTML(elements[k])]

\* Where the k-th element's HTML starts in the document: after the head,
\* the HTML of the elements before it and one line break for each of them.
RECURSIVE StartOf(_)
StartOf(k) ==
  IF k = 1 THEN Len(DocumentHead) + 1
  ELSE StartOf(k - 1) + Len(Parts[k - 1]) + 1

\* Where the tail of the document starts.
TailStart ==
  IF elements = <<>> THEN Len(DocumentHead) + 1
  ELSE StartOf(Len(elements)) + Len(Parts[Len(elements)])

\* The elements with other ids (and no children field), types and props
\* kept.
Renamed(els) ==
  [k \in 1..Len(els) |->
     [id |-> "other_" \o ToString(k), type |-> els[k].type,
      props |-> els[k].props, children |-> <<>>]]

-----------------------------------------------------------------------------
(* Properties of the lists in the canvas conversion *)

\* Where the pattern occurs in the converted text.
Occurrences(pat) == { i \in 1..Len(converted) : HasAt(converted, i, pat) }

\* The n-th element of a set of positions.
Nth(P, n) == CHOOSE p \in P : Cardinality({ q \in P : q <= p }) = n

ListKinds == {"ul", "ol"}

ListOpenings == UNION { Occurrences(<<"<", kind, " ">>) : kind \in ListKinds }

ListClosings == UNION { Occurrences(Close(kind)) : kind \in ListKinds }

\* The list that is open just before position i of the converted text:
\* the kind of the last list tag before i when that is a start tag.
OpenBefore(i) ==
  LET before == { p \in ListOpenings \cup ListClosings : p < i }
  IN  IF before = {} THEN "null"
      ELSE IF Greatest(before) \in ListOpenings
      THEN converted[Greatest(before) + 1]
      ELSE "null"

\* The start tags of the heading and paragraph blocks.
BlockStarts ==
  Occurrences(<<"<", "p", " ">>)
  \cup UNION { Occurrences(<<"<", "h" \o ToString(lvl), " ">>) : lvl \in 1..6 }

\* The list lines of the text, and the kind of list a line belongs to.
ListLines ==
  { k \in 1..Len(Lines) : IsBulletLine(Lines[k]) \/ IsOrderedLine(Lines[k]) }

KindOf(k) == IF IsOrderedLine(Lines[k]) THEN "ol" ELSE "ul"

\* What the conversion emits right after the item of the n-th list line:
\* the next item when the next line is a list line of the same kind, and
\* otherwise (a blank line, a heading, a paragraph, an item of the other
\* kind, the end of the text) the end tag of the open list.
AfterItem(n) ==
  LET k == Nth(ListLines, n)
      after == Nth(Occurrences(Close("li")), n) + Len(Close("li"))
  IN  IF k + 1 \in ListLines /\ KindOf(k + 1) = KindOf(k)
      THEN HasAt(converted, after, Open("li"))
      ELSE HasAt(converted, after, Close(KindOf(k)))

\* C22: in the converted text of the canvas at most one list is open at any
\* point: a list starts only when none is open, an end tag ends the list
\* of its kind that is open, no list is open at the end, a heading or a
\* paragraph starts only when no list is open, every <li> lies in an open
\* list of the kind of its line, and after an item the open list is closed
\* before anything else unless the next line continues it.
C22_OneListOpen ==
  context = "canvas" =>
    /\ \A i \in ListOpenings : OpenBefore(i) = "null"
    /\ \A i \in ListClosings : OpenBefore(i) = converted[i + 2]
    /\ OpenBefore(Len(converted) + 1) = "null"
    /\ \A i \in BlockStarts : OpenBefore(i) = "null"
    /\ Cardinality(Occurrences(Open("li"))) = Cardinality(ListLines)
    /\ Cardinality(Occurrences(Close("li"))) = Cardinality(ListLines)
    /\ \A n \in 1..Cardinality(ListLines) :
         /\ OpenBefore(Nth(Occurrences(Open("li")), n))
              = KindOf(Nth(ListLines, n))
         /\ AfterItem(n)

\* An unordered item, then an ordered item, then a paragraph.
C22_Witness ==
  /\ context = "canvas"
  /\ Len(Lines) = 3
  /\ IsBulletLine(Lines[1])
  /\ IsOrderedLine(Lines[2])
  /\ Lines[3] = <<"a">>
  /\ Cardinality(ListOpenings) = 2

-----------------------------------------------------------------------------
(* Further properties of the send path *)

\* The provider accepted the message of request r.
Accepted(r) == req[r].data # NoVal

\* C23: a log record is marked failed only if the delivery call of its
\* request failed; once the provider accepted the message the record of an
\* ended request is sent with the provider message id, also when the write
\* that records sent throws.
C23_FailedOnlyIfDeliveryFailed ==
  \A r \in Reqs :
    \A i \in RecordsOf(r) :
      /\ emails[i].status = "failed" => ~Accepted(r)
      /\ (Ended(r) /\ Accepted(r)) =>
           emails[i].status = "sent" /\ emails[i].messageId = req[r].data

\* What holds instead: a record is marked failed only after an exception
\* reached the catch, the provider's error or the store's, and carries its
\* message.
C23_FailedCarriesCaughtError ==
  \A r \in Reqs :
    \A i \in RecordsOf(r) :
      emails[i].status = "failed" =>
        /\ emails[i].error = req[r].err
        /\ req[r].err \in ProviderErrors \cup {StoreError}
        /\ Accepted(r) => req[r].err = StoreError

\* Request r is a freeform send in react mode whose source does not compile
\* or render.
FailingReact(r) ==
  /\ req[r].body.kind = "custom"
  /\ req[r].body.mode = "react"
  /\ req[r].source = "fails"
  /\ Configured

\* C24: a freeform send in react mode whose source fails to compile or
\* render never reaches the delivery call: it is answered with status 400,
\* writes no log record and sends nothing.
C24_FailingSourceNotSent ==
  \A r \in Reqs :
    FailingReact(r) =>
      /\ req[r].calls = 0
      /\ RecordsOf(r) = {}
      /\ Ended(r) => req[r].resp.status = 400

\* What holds instead: the send is stopped with status 400 exactly when the
\* fetch of the compile endpoint gave no ok answer; when the endpoint
\* answered for a failing source, its error page is the HTML of the send.
C24_ErrorPageIsSent ==
  \A r \in Reqs :
    FailingReact(r) =>
      \/ req[r].pc = "done" /\ req[r].resp.status = 400
           /\ req[r].calls = 0 /\ RecordsOf(r) = {}
      \/ req[r].finalHtml = "compilation error page"

-----------------------------------------------------------------------------
(* Properties of requests against the store that run at the same time *)

\* The import requests that have answered with their results.
Answered == { m \in {imp, rival} : m.pc = "done" /\ m.status = 200 }

\* C25: an import that answers with its results has counted each of the N
\* items of its batch exactly once (imported + updated + skipped + error
\* strings = N), has inserted as many documents as it reports imported and
\* has overwritten as many as it reports updated.
C25_CountsMatchWrites ==
  \A m \in Answered :
    /\ Accounted(m.results) = Len(m.templates)
    /\ m.inserted = m.results.imported
    /\ m.overwritten = m.results.updated

\* What holds also when requests interleave: each item of an answered
\* import is counted once, and the documents inserted are those reported
\* imported.
C25_CountedOnceAndInserted ==
  \A m \in Answered :
    /\ Accounted(m.results) = Len(m.templates)
    /\ m.inserted = m.results.imported
    /\ m.overwritten <= m.results.updated

\* C26: no two documents of "custom_templates" have the same id, after any
\* interleaving of create and import requests.
C26_IdsUnique == UniqueIds(custom_templates)

\* What holds: the documents a create request or an import with
\* generateNewIds inserts have ids of their own.
C26_GeneratedIdsUnique ==
  \A i, j \in 1..Len(custom_templates) :
    ( /\ custom_templates[i].id = custom_templates[j].id
      /\ custom_templates[i].id \notin TemplateIds ) => i = j

\* The latest operation of the builder, in a step that is one.
Operated == steps' # steps

Latest == steps'[Len(steps')]

\* The element list without the element of that id.
Without(els, id) == SelectSeq(els, LAMBDA el : el.id # id)

\* The two lists have the same elements in the same order, up to the props
\* of the element of that id.
SameButPropsOf(old, new, id) ==
  /\ Len(new) = Len(old)
  /\ \A k \in 1..Len(old) :
       /\ new[k].id = old[k].id
       /\ new[k].type = old[k].type
       /\ old[k].id # id => new[k].props = old[k].props

\* C27: after every drop, deletion and edit the HTML last passed to
\* onEmailChange is the render of the current elements; a drop appends one
\* new element at the end, a deletion removes exactly the element of that
\* id, an edit replaces the props of exactly that element, and all other
\* elements keep their order and props.
C27_CanvasOperations ==
  [][Operated =>
       /\ html' = generateEmailHTML(elements')
       /\ Latest.op = "drop" =>
            /\ Len(elements') = Len(elements) + 1
            /\ SubSeq(elements', 1, Len(elements)) = elements
            /\ \A k \in 1..Len(elements) :
                 elements[k].id # elements'[Len(elements')].id
       /\ Latest.op = "delete" => elements' = Without(elements, Latest.id)
       /\ Latest.op = "edit" =>
            SameButPropsOf(elements, elements', Latest.id)]_vars

\* What holds: the HTML is the render of the current elements after every
\* operation, drops and edits do what C27 says, and a deletion removes
\* the element unless another placed element has a children text, in which
\* case nothing is removed.
C27_DeletionMayDoNothing ==
  [][Operated =>
       /\ html' = generateEmailHTML(elements')
       /\ Latest.op = "drop" =>
            /\ Len(elements') = Len(elements) + 1
            /\ SubSeq(elements', 1, Len(elements)) = elements
       /\ Latest.op = "delete" =>
            IF \E k \in 1..Len(elements) :
                 elements[k].id # Latest.id /\ elements[k].children # <<>>
            THEN elements' = elements
            ELSE elements' = Without(elements, Latest.id)
       /\ Latest.op = "edit" =>
            SameButPropsOf(elements, elements', Latest.id)]_vars

\* Where a capitalised opening or closing tag starts in the text.
PseudoTags(doc) ==
  { i \in 1..Len(doc) :
      /\ doc[i] = "<"
      /\ \/ At(doc, i + 1) \in UpperCase
         \/ At(doc, i + 1) = "/" /\ At(doc, i + 2) \in UpperCase }

\* C28: the HTML generated for an element of a catalog entry has no
\* capitalised opening or closing tag left.
C28_NoPseudoTagLeft ==
  \A k \in 1..Len(elements) :
    elements[k].type \in CatalogIds =>
      PseudoTags(ElementHTML(elements[k])) = {}

\* What holds: the tags left are those of Container, which no replacement
\* of generateEmailHTML names; every other pseudo-tag of the catalog's
\* templates is rewritten.
C28_OnlyContainerLeft ==
  \A k \in 1..Len(elements) :
    LET doc == ElementHTML(elements[k])
    IN  \A i \in PseudoTags(doc) :
          \/ HasAt(doc, i, <<"<", "C", "ontainer">>)
          \/ HasAt(doc, i, <<"<", "/", "C", "ontainer", ">">>)

-----------------------------------------------------------------------------
(* Properties of the database client cache *)

\* C29: the database client is a process-wide singleton: whatever the
\* interleaving of the calls, at most one MongoClient is constructed and
\* connected, every call resolves with that client, and a connect that
\* failed leaves the cache empty.
C29_SingleClient ==
  /\ mongo.constructed <= 1
  /\ Cardinality(mongo.connected) <= 1
  /\ Cardinality(mongo.handed) <= 1
  /\ mongo.connected = {} => mongo.cachedClient = 0 /\ mongo.cachedDb = 0

\* What holds: only a client whose connect resolved is cached or handed
\* out, a failed connect leaves the cache as it was, and no client is
\* constructed while one is cached.
C29_OnlyConnectedCached ==
  /\ mongo.cachedClient \in mongo.connected \cup {0}
  /\ mongo.cachedDb \in mongo.connected \cup {0}
  /\ mongo.handed \subseteq mongo.connected
  /\ mongo.connected = {} => mongo.cachedClient = 0 /\ mongo.cachedDb = 0
  /\ mongo.uri = "" => mongo.constructed = 0

\* Calls that do not overlap share one client: a client is constructed
\* only by a call that started while no client was cached.
C29_ConstructedOnlyWhileCacheEmpty ==
  [][mongo'.constructed > mongo.constructed => mongo.cachedClient = 0]_vars

-----------------------------------------------------------------------------
(* sanitizeHtmlContent of the send-custom route *)

\* The characters of the texts that are not letters, digits or underscores,
\* each an atom of its own.
Punctuation ==
  {"{", "}", "<", ">", "/", ":", ";", " ", "\n", "\"", "'", "=", "-", ".",
   ",", "#", "&", "%", "!", "(", ")"}

\* [a-zA-Z0-9_]+: the atoms that are runs of letters, digits and underscores.
Words(s) == { s[i] : i \in 1..Len(s) } \ Punctuation

\* The atoms of the texts that hold a digit.
WithDigits == {"12px", "8px", "100", "0", "1", "2"}

\* [a-zA-Z\-]+: the runs of letters, and the hyphen.
Letters(s) == (Words(s) \ WithDigits) \cup {"-"}

\* The index after \s* from index i.
SpaceEnd(s, i) == Skip(s, i, {" ", "\n"})

DataSkip == <<"data", "-", "skip", "-", "in", "-", "text">>

SanitizeSteps ==
  <<"hidden block", "placeholder", "span break", "breaks", "color color",
    "style">>

\* /<div[^>]*data-skip-in-text[^>]*>.*?<\/div>/gis at index j: the index of
\* the last atom of the match, 0 when there is none.
HiddenBlockEnd(s, j) ==
  IF ~HasAt(s, j, <<"<", "div">>) THEN 0
  ELSE LET q == SkipNot(s, j + 2, {">"})
           attrs == { p \in (j + 2)..(q - Len(DataSkip)) :
                        HasAt(s, p, DataSkip) }
           closes == { r \in (q + 1)..Len(s) : HasAt(s, r, Close("div")) }
       IN  IF q > Len(s) \/ attrs = {} \/ closes = {} THEN 0
           ELSE Least(closes) + 3

\* /\{[a-zA-Z0-9_]+\}/g
PlaceholderEnd(s, j) ==
  LET k == Skip(s, j + 1, Words(s))
  IN  IF At(s, j) = "{" /\ k > j + 1 /\ At(s, k) = "}" THEN k ELSE 0

\* /<span>\s*<br\s*\/>\s*<\/span>/g
SpanBreakEnd(s, j) ==
  LET a == SpaceEnd(s, j + 3)
      b == SpaceEnd(s, a + 2)
      c == SpaceEnd(s, b + 2)
  IN  IF /\ HasAt(s, j, Open("span"))
         /\ HasAt(s, a, <<"<", "br">>)
         /\ HasAt(s, b, <<"/", ">">>)
         /\ HasAt(s, c, Close("span"))
      THEN c + 3 ELSE 0

\* One <br\s*\/>\s* at index j: the index after it, 0 when there is none.
BreakUnit(s, j) ==
  LET b == SpaceEnd(s, j + 2)
  IN  IF HasAt(s, j, <<"<", "br">>) /\ HasAt(s, b, <<"/", ">">>)
      THEN SpaceEnd(s, b + 2) ELSE 0

\* The units that follow one another from index j: how many, and the index
\* after the last.
RECURSIVE BreakUnits(_, _)
BreakUnits(s, j) ==
  IF BreakUnit(s, j) = 0 THEN [n |-> 0, next |-> j]
  ELSE LET more == BreakUnits(s, BreakUnit(s, j))
       IN  [n |-> more.n + 1, next |-> more.next]

\* /(<br\s*\/>\s*){3,}/g
BreaksEnd(s, j) ==
  IF BreakUnits(s, j).n >= 3 THEN BreakUnits(s, j).next - 1 ELSE 0

\* /color:\s*color\s*;?/gi
ColorColorEnd(s, j) ==
  LET a == SpaceEnd(s, j + 2)
      b == SpaceEnd(s, a + 1)
  IN  IF At(s, j) = "color" /\ At(s, j + 1) = ":" /\ At(s, a) = "color"
      THEN IF At(s, b) = ";" THEN b ELSE b - 1
      ELSE 0

\* /\sstyle="([^"]*)"/gi
StyleAttrEnd(s, j) ==
  LET q == SkipNot(s, j + 4, {"\""})
  IN  IF IsSpace(At(s, j)) /\ HasAt(s, j + 1, <<"style", "=", "\"">>)
         /\ q <= Len(s)
      THEN q ELSE 0

SanitizeMatch(s, j, step) ==
  CASE step = "hidden block" -> HiddenBlockEnd(s, j)
    [] step = "placeholder" -> PlaceholderEnd(s, j)
    [] step = "span break" -> SpanBreakEnd(s, j)
    [] step = "breaks" -> BreaksEnd(s, j)
    [] step = "color color" -> ColorColorEnd(s, j)
    [] step = "style" -> StyleAttrEnd(s, j)

allowed ==
  { <<"color">>, <<"background", "-", "color">>, <<"font", "-", "size">>,
    <<"font", "-", "weight">>, <<"line", "-", "height">>,
    <<"text", "-", "align">>, <<"border", "-", "radius">>, <<"padding">>,
    <<"margin">>, <<"display">>, <<"max", "-", "width">>, <<"height">>,
    <<"width">> }

\* The map callback of the style cleaning: `prop:val` for a declaration
\* that is kept, '' for one that is dropped.  The length of a value is
\* counted in atoms.
SafeDeclaration(r) ==
  LET p == Skip(r, 1, Letters(r))
      c == SpaceEnd(r, p)
      v == SpaceEnd(r, c + 1)
      prop == [k \in 1..(p - 1) |-> ToLower(r[k])]
      val == Trim(SubSeq(r, v, Len(r)))
  IN  IF ~(p > 1 /\ At(r, c) = ":" /\ v <= Len(r))
         \/ \E k \in v..Len(r) : r[k] = "\n"
      THEN <<>>
      ELSE IF val \in {<<>>, <<"px">>, <<"em">>, <<"rem">>, <<"color">>}
      THEN <<>>
      ELSE IF prop \notin allowed THEN <<>>
      ELSE IF (\E k \in 1..Len(val) : val[k] \in {"'", "\"", "{", "}"})
              \/ Len(val) > 100
      THEN <<>>
      ELSE prop \o <<":">> \o val

\* The replacement callback of the style cleaning for the attribute value.
CleanStyle(value) ==
  LET rules == Split(value, ";")
      trimmed == [k \in 1..Len(rules) |-> Trim(rules[k])]
      kept == SelectSeq(trimmed,
                LAMBDA r : r # <<>> /\ \A k \in 1..Len(r) : r[k] \notin {"{", "}"})
      mapped == [k \in 1..Len(kept) |-> SafeDeclaration(kept[k])]
      safe == Join(SelectSeq(mapped, LAMBDA r : r # <<>>), <<";">>)
  IN  IF safe # <<>>
      THEN <<" ", "style", "=", "\"">> \o safe \o <<"\"">>
      ELSE <<>>

\* What a match from index j to index e is replaced with.
SanitizeReplacement(s, j, e, step) ==
  CASE step = "span break" -> <<"<", "br", ">">>
    [] step = "breaks" -> <<"<", "br", ">", "<", "br", ">">>
    [] step = "style" -> CleanStyle(SubSeq(s, j + 4, e - 1))
    [] OTHER -> <<>>

\* One global replace from index i on: the matches from left to right, none
\* overlapping another.
RECURSIVE SanitizeFrom(_, _, _)
SanitizeFrom(s, i, step) ==
  LET js == { j \in i..Len(s) : SanitizeMatch(s, j, step) > 0 }
  IN  IF js = {} THEN SubSeq(s, i, Len(s))
      ELSE LET j == Least(js)
               e == SanitizeMatch(s, j, step)
           IN  SubSeq(s, i, j - 1) \o SanitizeReplacement(s, j, e, step)
               \o SanitizeFrom(s, e + 1, step)

\* The replacements from the k-th on, each applied to the result of the one
\* before.
RECURSIVE SanitizeFromStep(_, _)
SanitizeFromStep(s, k) ==
  IF k > Len(SanitizeSteps) THEN s
  ELSE CHOOSE result \in
         { SanitizeFromStep(out, k + 1) :
             out \in { SanitizeFrom(s, 1, SanitizeSteps[k]) } } : TRUE

sanitizeHtmlContent(text) == SanitizeFromStep(text, 1)

\* The pieces the texts handed to sanitizeHtmlContent are made of.
SanitizePieces ==
  { <<"{", "a">>, <<"}">>, <<"b">>, <<" ">>, <<"\"">>,
    <<"color", ":", "color", ";">>,
    <<"style", "=", "\"">>,
    <<"position", ":", "fixed", ";">>,
    <<"color", ":", "red", "\"">>,
    <<"<", "br", "/", ">">>, Open("span"), Close("span"),
    <<"<", "div", " ">> \o DataSkip \o <<">">>, Close("div") }

MaxPieces == 4

RECURSIVE PiecedTexts(_)
PiecedTexts(n) ==
  IF n = 0 THEN { <<>> }
  ELSE PiecedTexts(n - 1)
       \cup { t \o p : t \in PiecedTexts(n - 1), p \in SanitizePieces }

SanitizeInputs == PiecedTexts(MaxPieces)

\* send-custom: finalHtml = sanitizeHtmlContent(finalHtml)
Sanitize ==
  /\ context = "none"
  /\ context' = "sanitize"
  /\ converted' = sanitizeHtmlContent(raw)
  /\ UNCHANGED <<raw, elements, html, canvas, steps>>
  /\ UNCHANGED <<sendVars, tplVars>>

InitSanitize ==
  /\ SendIdle
  /\ TplIdle
  /\ custom_templates = <<>>
  /\ phase = "none"
  /\ raw \in SanitizeInputs
  /\ converted = <<>>
  /\ context = "none"
  /\ elements = <<>>
  /\ html = <<>>
  /\ canvas = <<>>
  /\ steps = <<>>

NextSanitize == Sanitize

SpecSanitize == InitSanitize /\ [][NextSanitize]_vars

-----------------------------------------------------------------------------
(* C30 *)

\* Where a substring {identifier} of s begins.
Placeholders(s) == { j \in 1..Len(s) : PlaceholderEnd(s, j) > 0 }

\* Where a style="..." attribute of s begins, and its value.
StyleAttributes(s) ==
  { j \in 1..Len(s) :
      HasAt(s, j, <<"style", "=", "\"">>) /\ SkipNot(s, j + 3, {"\""}) <= Len(s) }

StyleValue(s, j) == SubSeq(s, j + 3, SkipNot(s, j + 3, {"\""}) - 1)

\* The property a declaration names: the text before its colon.
PropertyOf(r) == Trim(SubSeq(r, 1, SkipNot(r, 1, {":"}) - 1))

OnlyAllowListed(value) ==
  \A k \in 1..Len(Split(value, ";")) :
    \/ Trim(Split(value, ";")[k]) = <<>>
    \/ PropertyOf(Split(value, ";")[k]) \in allowed

\* A brace that opens before an earlier one is closed, only identifier
\* characters between the two.
Nested(s) ==
  \E j \in 1..Len(s) :
    At(s, j) = "{" /\ At(s, Skip(s, j + 1, Words(s))) = "{"

\* C30: whatever the input, the text sanitizeHtmlContent returns has no
\* substring {identifier} (letters, digits, underscores between braces), and
\* every style="..." attribute in it holds only allow-listed properties.
C30_NoPlaceholderAndAllowListedStyles ==
  context = "sanitize" =>
    /\ Placeholders(converted) = {}
    /\ \A j \in StyleAttributes(converted) :
         OnlyAllowListed(StyleValue(converted, j))

\* C30, the placeholders alone.
C30_NoPlaceholder ==
  context = "sanitize" => Placeholders(converted) = {}

\* C30, the style attributes alone.
C30_StylesAllowListed ==
  context = "sanitize" =>
    \A j \in StyleAttributes(converted) :
      OnlyAllowListed(StyleValue(converted, j))

\* C30, what holds of the placeholder removal on its own: one survives it
\* only in a text with nested braces.
C30_OnlyNestedSurviveRemoval ==
  Placeholders(SanitizeFrom(raw, 1, "placeholder")) # {} => Nested(raw)

\* C30, what holds of the style cleaning: the attribute written in place of
\* a matched one holds only allow-listed properties.
C30_WrittenStylesAllowListed ==
  \A j \in 1..Len(raw) :
    StyleAttrEnd(raw, j) > 0 =>
      LET written == CleanStyle(SubSeq(raw, j + 4, StyleAttrEnd(raw, j) - 1))
      IN  written # <<>> =>
            /\ StyleAttributes(written) = {2}
            /\ OnlyAllowListed(StyleValue(written, 2))

=============================================================================
